---- MODULE Spec2Model ----
(***************************************************************************)
(* A model of the tree-walking Lox interpreter of lox-rust: the runtime    *)
(* values (value.rs), the environment of scope frames and value-cells      *)
(* (environment.rs), function handles (function.rs) and the evaluator      *)
(* (interpreter.rs).                                                       *)
(*                                                                         *)
(* A value-cell (ValueBox = Arc<RwLock<Box<Value>>>) is an index into      *)
(* `heap`; a handle to a cell is that index.  Strings are sequences of     *)
(* one-character strings, numbers are integers.                            *)
(*                                                                         *)
(* The parser (parser.rs), the resolver (resolver.rs), the scanner         *)
(* (scanner.rs) and the bytecode virtual machine (vm/) follow, each with   *)
(* its own specification.                                                  *)
(***************************************************************************)
EXTENDS Integers, Sequences, FiniteSets, TLC

VARIABLES
    global_variables,   \* EnvironmentImpl.global_variables : name -> cell
    value_stack,        \* EnvironmentImpl.value_stack : Seq(name -> cell)
    heap,               \* the contents of the value-cells that are still referenced
    handles,            \* ValueBox handles held by the caller of the Environment API, in order
    last,               \* the last operation: its input, the state before it, its outcome
    blocked,            \* the thread never returned from the last operation
    tokens,             \* Parser.tokens
    current,            \* Parser.current
    current_parse_tree_id,  \* Parser.current_parse_tree_id
    scopes,             \* Resolver.scopes : Seq(name -> defined?)
    interpreter_local_map,  \* Resolver.interpreter_local_map : parse-tree id -> index
    source,             \* Scanner.source : Seq(character)
    chunk,              \* the Chunk of the run in progress: code and constants
    instruction_pointer,    \* VmState.instruction_pointer
    vm_stack,           \* VmState.stack
    tracing,            \* VmState.tracing
    running             \* whether VirtualMachineImpl::run is inside its loop

interpreter_vars == <<global_variables, value_stack, heap, handles, blocked>>

parser_vars == <<tokens, current, current_parse_tree_id>>

resolver_vars == <<scopes, interpreter_local_map>>

scanner_vars == <<source>>

vm_vars == <<chunk, instruction_pointer, vm_stack, tracing, running>>

vars == <<interpreter_vars, last, parser_vars, resolver_vars, scanner_vars, vm_vars>>

(***************************************************************************)
(* Bounds of the model                                                     *)
(***************************************************************************)
\* frames an API caller pushes by hand
MaxDepth == 2
\* handles an API caller keeps
MaxHandles == 2
\* loop iterations plus calls of one execute
MaxSteps == 8
\* the length of the token vectors made of every token of the alphabet
MaxTokens == 4
\* blocks around the reference of a resolved program
MaxBlocks == 2
\* scopes that failed resolves have left on the Resolver
MaxLeaked == 2
\* the length of the scanned sources made of every character of the alphabet
MaxSource == 3
\* the length of the chunks made of every byte of the alphabet
MaxCode == 3
\* values earlier runs have left on the stack when a run starts
MaxLeft == 2
\* significant digits, and digits after the decimal point, of the number
\* literals whose f64 the model names: up to 15 significant digits a decimal
\* of the normal range names one f64 and that f64 prints as the decimal
MaxDigits == 9
MaxFraction == 300

\* the identifiers of the model's programs, in a fixed order
NameOrder == <<"a", "b", "f", "p", "x", "y">>

Names == {NameOrder[i] : i \in 1..Len(NameOrder)}

\* Option::None for a cell
NoCell == 0

(***************************************************************************)
(* value.rs                                                                *)
(***************************************************************************)
\* an f64 that is an integer: its value and its sign bit.  The sign bit tells
\* 0.0 from -0.0, which are equal and print differently
F64(n, sign_negative) ==
    [t |-> "Number", n |-> n, sign_negative |-> IF n = 0 THEN sign_negative ELSE n < 0]

\* the number a literal writes
Number(n) == F64(n, FALSE)

String(s) == [t |-> "String", s |-> s]

Boolean(b) == [t |-> "Boolean", b |-> b]

Callable(f) == [t |-> "Callable", f |-> f]

Nil == [t |-> "Nil"]

is_truthy(v) ==
    CASE v.t = "Boolean" -> v.b
      [] v.t = "Number" -> v.n # 0
      [] v.t = "String" -> v.s # <<>>
      [] v.t = "Nil" -> FALSE
      [] v.t = "Callable" -> FALSE

Digit(d) == <<"0", "1", "2", "3", "4", "5", "6", "7", "8", "9">>[d + 1]

RECURSIVE NatToString(_)
NatToString(n) == IF n < 10 THEN <<Digit(n)>> ELSE NatToString(n \div 10) \o <<Digit(n % 10)>>

\* f64::to_string of an integral number: -0.0 prints as -0
number_to_string(v) ==
    IF v.sign_negative THEN <<"-">> \o NatToString(-v.n) ELSE NatToString(v.n)

\* impl Display for FunctionImpl
function_fmt(f) == <<"<", "f", "n", " ", f.name, ">">>

\* impl Display for Value
value_fmt(v) ==
    CASE v.t = "Number" -> number_to_string(v)
      [] v.t = "String" -> v.s
      [] v.t = "Boolean" -> IF v.b THEN <<"t", "r", "u", "e">> ELSE <<"f", "a", "l", "s", "e">>
      [] v.t = "Nil" -> <<"n", "i", "l">>
      [] v.t = "Callable" ->
            <<"<", "c", "a", "l", "l", "a", "b", "l", "e", ">", " ">> \o function_fmt(v.f)

(***************************************************************************)
(* function.rs                                                             *)
(***************************************************************************)
FunctionImpl(name, arguments, body) == [name |-> name, arguments |-> arguments, body |-> body]

get_arg_count(f) == Len(f.arguments)

\* Err when arg_number is out of range (arg_number counts from 0)
get_arg_name(f, arg_number) ==
    IF arg_number >= Len(f.arguments)
    THEN [ok |-> FALSE, name |-> ""]
    ELSE [ok |-> TRUE, name |-> f.arguments[arg_number + 1]]

get_body(f) == f.body

(***************************************************************************)
(* expr.rs and stmt.rs: the syntax tree                                    *)
(***************************************************************************)
None == [k |-> "None"]

Assign(left, right) == [k |-> "Assign", left |-> left, right |-> right]

Binary(kind, left, right) == [k |-> kind, left |-> left, right |-> right]

BinaryOr(left, right) == Binary("BinaryOr", left, right)

BinaryAnd(left, right) == Binary("BinaryAnd", left, right)

BinaryEqual(left, right) == Binary("BinaryEqual", left, right)

BinaryNotEqual(left, right) == Binary("BinaryNotEqual", left, right)

BinaryLess(left, right) == Binary("BinaryLess", left, right)

BinaryLessEqual(left, right) == Binary("BinaryLessEqual", left, right)

BinaryGreater(left, right) == Binary("BinaryGreater", left, right)

BinaryGreaterEqual(left, right) == Binary("BinaryGreaterEqual", left, right)

BinaryAdd(left, right) == Binary("BinaryAdd", left, right)

BinarySub(left, right) == Binary("BinarySub", left, right)

BinaryMul(left, right) == Binary("BinaryMul", left, right)

BinaryDiv(left, right) == Binary("BinaryDiv", left, right)

UnaryBang(expr) == [k |-> "UnaryBang", expr |-> expr]

UnaryMinus(expr) == [k |-> "UnaryMinus", expr |-> expr]

Call(callee, arguments) == [k |-> "Call", callee |-> callee, arguments |-> arguments]

LiteralString(s) == [k |-> "LiteralString", value |-> s]

LiteralNumber(n) == [k |-> "LiteralNumber", value |-> n]

False == [k |-> "False"]

True == [k |-> "True"]

NilExpr == [k |-> "Nil"]

Identifier(id) == [k |-> "Identifier", id |-> id]

PrintStmt(expr) == [k |-> "Print", expr |-> expr]

ExprStmt(expr) == [k |-> "Expr", expr |-> expr]

VarDeclaration(name, initializer) ==
    [k |-> "VarDeclaration", name |-> name, initializer |-> initializer]

Block(stmts) == [k |-> "Block", stmts |-> stmts]

If(condition, then_branch, else_branch) ==
    [k |-> "If", condition |-> condition, then_branch |-> then_branch,
     else_branch |-> else_branch]

While(condition, body) == [k |-> "While", condition |-> condition, body |-> body]

FunctionDeclaration(name, arguments, body) ==
    [k |-> "FunctionDeclaration", name |-> name, arguments |-> arguments, body |-> body]

\* Parser::parse_statement_function_declaration wraps the parsed body in a Block
parse_function_declaration(name, arguments, body) ==
    FunctionDeclaration(name, arguments, Block(<<body>>))

(***************************************************************************)
(* The state an evaluation threads through: the environment, the cells,    *)
(* the read guards held across nested evaluation, the lines printed, and   *)
(* what the run has done so far (pushes, statements started, whether every *)
(* finished statement left the frame stack as deep as it found it).        *)
(***************************************************************************)
EvalState(globals, stack, cells, fuel) ==
    [global_variables |-> globals, value_stack |-> stack, heap |-> cells,
     guards |-> <<>>, out |-> <<>>, pushes |-> 0, stmts |-> 0, defines |-> 0,
     scope_ok |-> TRUE, fuel |-> fuel]

\* Result<ValueBox, String>, or a call that never returns ("hang": the thread
\* blocks on a lock it holds itself), or a run that leaves the model's bounds
Ok(cell, st) == [status |-> "ok", cell |-> cell, msg |-> <<>>, st |-> st]

Err(msg, st) == [status |-> "err", cell |-> NoCell, msg |-> msg, st |-> st]

Hang(st) == [status |-> "hang", cell |-> NoCell, msg |-> <<>>, st |-> st]

OutOfBounds(st) == [status |-> "bound", cell |-> NoCell, msg |-> <<>>, st |-> st]

IsOk(r) == r.status = "ok"

\* new_value_box: a fresh cell holding value; Ok carries its handle
new_value_box(value, st) == Ok(Len(st.heap) + 1, [st EXCEPT !.heap = Append(@, value)])

(***************************************************************************)
(* environment.rs                                                          *)
(***************************************************************************)
\* the lookup that walks outward: every frame, innermost first, then the globals
RECURSIVE get_variable_from(_, _, _)
get_variable_from(st, name, i) ==
    IF i = 0
    THEN IF name \in DOMAIN st.global_variables THEN st.global_variables[name] ELSE NoCell
    ELSE IF name \in DOMAIN st.value_stack[i]
         THEN st.value_stack[i][name]
         ELSE get_variable_from(st, name, i - 1)

get_variable_chain(st, name) == get_variable_from(st, name, Len(st.value_stack))

\* Some(cell) or NoCell: the top frame, then the globals
get_variable(st, name) ==
    IF Len(st.value_stack) > 0 /\ name \in DOMAIN st.value_stack[Len(st.value_stack)]
    THEN st.value_stack[Len(st.value_stack)][name]
    ELSE IF name \in DOMAIN st.global_variables
         THEN st.global_variables[name]
         ELSE NoCell

\* HashMap::insert of a handle into the top frame, or into the globals
insert_binding(st, name, cell) ==
    IF Len(st.value_stack) > 0
    THEN [st EXCEPT !.value_stack[Len(st.value_stack)] = (name :> cell) @@ @,
                    !.defines = @ + 1]
    ELSE [st EXCEPT !.global_variables = (name :> cell) @@ @, !.defines = @ + 1]

\* a mutant of define_variable: the binding always goes to the globals
define_variable_global(st, name, value) ==
    [new_value_box(value, st).st EXCEPT
        !.global_variables = (name :> new_value_box(value, st).cell) @@ @,
        !.defines = @ + 1]

define_variable(st, name, value) ==
    insert_binding(new_value_box(value, st).st, name, new_value_box(value, st).cell)

push_stack(st) == [st EXCEPT !.value_stack = Append(@, <<>>), !.pushes = @ + 1]

\* Vec::pop: nothing happens on an empty stack
pop_stack(st) ==
    IF Len(st.value_stack) = 0
    THEN st
    ELSE [st EXCEPT !.value_stack = SubSeq(@, 1, Len(@) - 1)]

define_function(st, name, function) == define_variable(st, name, Callable(function))

(***************************************************************************)
(* interpreter.rs: the evaluator                                           *)
(***************************************************************************)
RECURSIVE accept_expr(_, _)
RECURSIVE accept_stmt(_, _)
RECURSIVE block_statements(_, _, _)
RECURSIVE while_loop(_, _, _)
RECURSIVE evaluate_arguments(_, _, _, _)
RECURSIVE bind_arguments(_, _, _, _)

\* the value a handle's read guard shows
Read(st, cell) == st.heap[cell]

visit_print(expr, st) ==
    LET print(value) ==
            IF ~IsOk(value) THEN value
            ELSE new_value_box(Nil, [value.st EXCEPT
                    !.out = Append(@, value_fmt(Read(value.st, value.cell)))])
    IN  print(accept_expr(expr, st))

visit_expr(expr, st) == accept_expr(expr, st)

visit_var_declaration(name, initializer, st) ==
    LET found(defined) ==
            IF get_variable(defined, name) = NoCell
            THEN Err(<<"error defining variable", name>>, defined)
            ELSE Ok(get_variable(defined, name), defined)
        declare(value_result) ==
            IF ~IsOk(value_result) THEN value_result
            ELSE found(define_variable(value_result.st, name,
                                       Read(value_result.st, value_result.cell)))
    IN  IF initializer # None
        THEN declare(accept_expr(initializer, st))
        ELSE new_value_box(Nil, define_variable(st, name, Nil))

\* a mutant of block_unwind: the frame is left behind when a statement fails
block_unwind_leak(st) == st

\* the error arm of visit_block: pop the frame, then return the error
block_unwind(st) == pop_stack(st)

\* the for loop of visit_block over stmts[i..]; Ok carries the handle the last
\* statement returned (visit_block drops it)
block_statements(stmts, i, st) ==
    LET next(r) ==
            IF r.status = "err" THEN [r EXCEPT !.st = block_unwind(r.st)]
            ELSE IF ~IsOk(r) \/ i = Len(stmts) THEN r
            ELSE block_statements(stmts, i + 1, r.st)
    IN  IF i > Len(stmts) THEN Ok(NoCell, st)
        ELSE next(accept_stmt(stmts[i], st))

\* a mutant of visit_block: the block yields its last statement's value
visit_block_last_value(stmts, st) ==
    LET leave(r) ==
            IF ~IsOk(r) THEN r
            ELSE IF r.cell = NoCell THEN new_value_box(Nil, pop_stack(r.st))
            ELSE Ok(r.cell, pop_stack(r.st))
    IN  leave(block_statements(stmts, 1, push_stack(st)))

visit_block(stmts, st) ==
    LET leave(r) ==
            IF ~IsOk(r) THEN r
            ELSE new_value_box(Nil, pop_stack(r.st))
    IN  leave(block_statements(stmts, 1, push_stack(st)))

visit_if(condition, then_branch, else_branch, st) ==
    LET branch(c) ==
            IF ~IsOk(c) THEN c
            ELSE IF is_truthy(Read(c.st, c.cell))
                 THEN accept_stmt(then_branch, c.st)
                 ELSE IF else_branch # None
                      THEN accept_stmt(else_branch, c.st)
                      ELSE new_value_box(Nil, c.st)
    IN  branch(accept_expr(condition, st))

\* the loop of visit_while; every iteration uses up one step of the run
while_loop(condition, body, st) ==
    LET again(b) ==
            IF ~IsOk(b) THEN b
            ELSE while_loop(condition, body, b.st)
        iterate(c) ==
            IF ~IsOk(c) THEN c
            ELSE IF ~is_truthy(Read(c.st, c.cell)) THEN new_value_box(Nil, c.st)
            ELSE IF c.st.fuel = 0 THEN OutOfBounds(c.st)
            ELSE again(accept_stmt(body, [c.st EXCEPT !.fuel = @ - 1]))
    IN  iterate(accept_expr(condition, st))

visit_while(condition, body, st) == while_loop(condition, body, st)

visit_function_declaration(name, arguments, body, st) ==
    new_value_box(Nil, define_function(st, name, FunctionImpl(name, arguments, body)))

\* RwLock::write on a cell blocks for ever while this thread holds a read guard
\* on the same cell: right_guard, or the callee_guard of a call in progress
WriteBlocks(st, cell, right_cell) ==
    cell = right_cell \/ \E i \in 1..Len(st.guards) : st.guards[i] = cell

\* a mutant of visit_assign: the name is bound to the right operand's cell,
\* whether it was bound or not
visit_assign_define(left, right, st) ==
    LET define(right_result) ==
            IF ~IsOk(right_result) THEN right_result
            ELSE Ok(right_result.cell, insert_binding(right_result.st, left, right_result.cell))
    IN  define(accept_expr(right, st))

visit_assign(left, right, st) ==
    LET write(left_variable, right_result) ==
            IF ~IsOk(right_result) THEN right_result
            ELSE IF WriteBlocks(right_result.st, left_variable, right_result.cell)
                 THEN Hang(right_result.st)
                 ELSE Ok(left_variable,
                         [right_result.st EXCEPT
                             !.heap[left_variable] = Read(right_result.st, right_result.cell)])
    IN  IF get_variable(st, left) # NoCell
        THEN write(get_variable(st, left), accept_expr(right, st))
        ELSE Err(<<"Undefined variable", left>>, st)

\* a mutant of visit_binary_or: the right operand is always evaluated
visit_binary_or_eager(left, right, st) ==
    LET choose(left_result, right_result) ==
            IF ~IsOk(right_result) THEN right_result
            ELSE IF is_truthy(Read(left_result.st, left_result.cell))
                 THEN Ok(left_result.cell, right_result.st)
                 ELSE right_result
        both(left_result) ==
            IF ~IsOk(left_result) THEN left_result
            ELSE choose(left_result, accept_expr(right, left_result.st))
    IN  both(accept_expr(left, st))

visit_binary_or(left, right, st) ==
    LET choose(left_result) ==
            IF ~IsOk(left_result) THEN left_result
            ELSE IF is_truthy(Read(left_result.st, left_result.cell))
                 THEN left_result
                 ELSE accept_expr(right, left_result.st)
    IN  choose(accept_expr(left, st))

visit_binary_and(left, right, st) ==
    LET choose(left_result) ==
            IF ~IsOk(left_result) THEN left_result
            ELSE IF is_truthy(Read(left_result.st, left_result.cell))
                 THEN accept_expr(right, left_result.st)
                 ELSE left_result
    IN  choose(accept_expr(left, st))

\* both operands are evaluated, left first, and only then read
evaluate_operands(left, right, st) ==
    LET operands(left_result, right_result) ==
            IF ~IsOk(right_result) THEN right_result
            ELSE [status |-> "ok", st |-> right_result.st,
                  left |-> Read(right_result.st, left_result.cell),
                  right |-> Read(right_result.st, right_result.cell)]
        second(left_result) ==
            IF ~IsOk(left_result) THEN left_result
            ELSE operands(left_result, accept_expr(right, left_result.st))
    IN  second(accept_expr(left, st))

BothOf(l, r, type) == l.t = type /\ r.t = type

\* lexicographic order of two strings; characters compare by their place in Alphabet
Alphabet == <<" ", "0", "1", "2", "3", "4", "5", "6", "7", "8", "9", "a", "b", "e", "h",
              "i", "n", "o", "r", "t", "u", "x">>

CharCode(c) == CHOOSE i \in 1..Len(Alphabet) : Alphabet[i] = c

RECURSIVE string_less(_, _)
string_less(l, r) ==
    IF r = <<>> THEN FALSE
    ELSE IF l = <<>> THEN TRUE
    ELSE IF Head(l) = Head(r) THEN string_less(Tail(l), Tail(r))
    ELSE CharCode(Head(l)) < CharCode(Head(r))

visit_binary_equal(left, right, st) ==
    LET apply(o) ==
            IF ~IsOk(o) THEN o
            ELSE CASE BothOf(o.left, o.right, "Number") ->
                        new_value_box(Boolean(o.left.n = o.right.n), o.st)
                   [] BothOf(o.left, o.right, "String") ->
                        new_value_box(Boolean(o.left.s = o.right.s), o.st)
                   [] BothOf(o.left, o.right, "Boolean") ->
                        new_value_box(Boolean(o.left.b = o.right.b), o.st)
                   [] BothOf(o.left, o.right, "Nil") -> new_value_box(Boolean(TRUE), o.st)
                   [] OTHER -> new_value_box(Boolean(FALSE), o.st)
    IN  apply(evaluate_operands(left, right, st))

visit_binary_not_equal(left, right, st) ==
    LET apply(o) ==
            IF ~IsOk(o) THEN o
            ELSE CASE BothOf(o.left, o.right, "Number") ->
                        new_value_box(Boolean(o.left.n # o.right.n), o.st)
                   [] BothOf(o.left, o.right, "String") ->
                        new_value_box(Boolean(o.left.s # o.right.s), o.st)
                   [] BothOf(o.left, o.right, "Boolean") ->
                        new_value_box(Boolean(o.left.b # o.right.b), o.st)
                   [] BothOf(o.left, o.right, "Nil") -> new_value_box(Boolean(FALSE), o.st)
                   [] OTHER -> new_value_box(Boolean(TRUE), o.st)
    IN  apply(evaluate_operands(left, right, st))

visit_binary_less(left, right, st) ==
    LET apply(o) ==
            IF ~IsOk(o) THEN o
            ELSE CASE BothOf(o.left, o.right, "Number") ->
                        new_value_box(Boolean(o.left.n < o.right.n), o.st)
                   [] BothOf(o.left, o.right, "String") ->
                        new_value_box(Boolean(string_less(o.left.s, o.right.s)), o.st)
                   [] OTHER -> Err(<<"Less comparison can only be applied to operands both numbers or both strings">>, o.st)
    IN  apply(evaluate_operands(left, right, st))

visit_binary_less_equal(left, right, st) ==
    LET apply(o) ==
            IF ~IsOk(o) THEN o
            ELSE CASE BothOf(o.left, o.right, "Number") ->
                        new_value_box(Boolean(o.left.n <= o.right.n), o.st)
                   [] BothOf(o.left, o.right, "String") ->
                        new_value_box(Boolean(~string_less(o.right.s, o.left.s)), o.st)
                   [] OTHER -> Err(<<"Less or equal comparison can only be applied to operands both numbers or both strings">>, o.st)
    IN  apply(evaluate_operands(left, right, st))

visit_binary_greater(left, right, st) ==
    LET apply(o) ==
            IF ~IsOk(o) THEN o
            ELSE CASE BothOf(o.left, o.right, "Number") ->
                        new_value_box(Boolean(o.left.n > o.right.n), o.st)
                   [] BothOf(o.left, o.right, "String") ->
                        new_value_box(Boolean(string_less(o.right.s, o.left.s)), o.st)
                   [] OTHER -> Err(<<"Greater comparison can only be applied to operands both numbers or both strings">>, o.st)
    IN  apply(evaluate_operands(left, right, st))

visit_binary_greater_equal(left, right, st) ==
    LET apply(o) ==
            IF ~IsOk(o) THEN o
            ELSE CASE BothOf(o.left, o.right, "Number") ->
                        new_value_box(Boolean(o.left.n >= o.right.n), o.st)
                   [] BothOf(o.left, o.right, "String") ->
                        new_value_box(Boolean(~string_less(o.left.s, o.right.s)), o.st)
                   [] OTHER -> Err(<<"Greater or equal comparison can only be applied to operands both numbers or both strings">>, o.st)
    IN  apply(evaluate_operands(left, right, st))

\* a mutant of visit_binary_add: a string concatenates with the display form
\* of any value
visit_binary_add_display(left, right, st) ==
    LET apply(o) ==
            IF ~IsOk(o) THEN o
            ELSE CASE BothOf(o.left, o.right, "Number") ->
                        new_value_box(F64(o.left.n + o.right.n,
                                          o.left.sign_negative /\ o.right.sign_negative),
                                      o.st)
                   [] o.left.t = "String" \/ o.right.t = "String" ->
                        new_value_box(String(value_fmt(o.left) \o value_fmt(o.right)), o.st)
                   [] OTHER -> Err(<<"Addition can only be applied to operands both numbers or both strings">>, o.st)
    IN  apply(evaluate_operands(left, right, st))

\* the sum of two zeros is -0.0 when both are -0.0, and a sum of two numbers
\* that is zero otherwise is 0.0
visit_binary_add(left, right, st) ==
    LET apply(o) ==
            IF ~IsOk(o) THEN o
            ELSE CASE BothOf(o.left, o.right, "Number") ->
                        new_value_box(F64(o.left.n + o.right.n,
                                          o.left.sign_negative /\ o.right.sign_negative),
                                      o.st)
                   [] BothOf(o.left, o.right, "String") ->
                        new_value_box(String(o.left.s \o o.right.s), o.st)
                   [] o.left.t = "String" /\ o.right.t = "Number" ->
                        new_value_box(String(o.left.s \o number_to_string(o.right)), o.st)
                   [] o.left.t = "Number" /\ o.right.t = "String" ->
                        new_value_box(String(number_to_string(o.left) \o o.right.s), o.st)
                   [] OTHER -> Err(<<"Addition can only be applied to operands both numbers or both strings">>, o.st)
    IN  apply(evaluate_operands(left, right, st))

visit_binary_sub(left, right, st) ==
    LET apply(o) ==
            IF ~IsOk(o) THEN o
            ELSE IF BothOf(o.left, o.right, "Number")
                 THEN new_value_box(F64(o.left.n - o.right.n,
                                        o.left.sign_negative /\ ~o.right.sign_negative),
                                    o.st)
                 ELSE Err(<<"Subtraction can only be applied to numbers">>, o.st)
    IN  apply(evaluate_operands(left, right, st))

visit_binary_mul(left, right, st) ==
    LET apply(o) ==
            IF ~IsOk(o) THEN o
            ELSE IF BothOf(o.left, o.right, "Number")
                 THEN new_value_box(F64(o.left.n * o.right.n,
                                        o.left.sign_negative # o.right.sign_negative),
                                    o.st)
                 ELSE Err(<<"Multiplication can only be applied to numbers">>, o.st)
    IN  apply(evaluate_operands(left, right, st))

\* truncating division of two integers
Quotient(a, b) ==
    IF (a >= 0) = (b > 0) THEN (IF a >= 0 THEN a ELSE -a) \div (IF b > 0 THEN b ELSE -b)
    ELSE -((IF a >= 0 THEN a ELSE -a) \div (IF b > 0 THEN b ELSE -b))

\* a quotient that is no integer is outside the model's numbers; a divisor of
\* 0.0 or -0.0 equals 0.0
visit_binary_div(left, right, st) ==
    LET apply(o) ==
            IF ~IsOk(o) THEN o
            ELSE IF BothOf(o.left, o.right, "Number")
                 THEN IF o.right.n = 0 THEN Err(<<"Division by zero">>, o.st)
                      ELSE IF Quotient(o.left.n, o.right.n) * o.right.n # o.left.n
                           THEN OutOfBounds(o.st)
                           ELSE new_value_box(
                                    F64(Quotient(o.left.n, o.right.n),
                                        o.left.sign_negative # o.right.sign_negative),
                                    o.st)
                 ELSE Err(<<"Division can only be applied to numbers">>, o.st)
    IN  apply(evaluate_operands(left, right, st))

visit_unary_bang(expr, st) ==
    LET negate(expr_result) ==
            IF ~IsOk(expr_result) THEN expr_result
            ELSE IF Read(expr_result.st, expr_result.cell).t = "Boolean"
                 THEN new_value_box(Boolean(~Read(expr_result.st, expr_result.cell).b),
                                    expr_result.st)
                 ELSE Err(<<"Unary bang cannot be applied to",
                            Read(expr_result.st, expr_result.cell).t>>, expr_result.st)
    IN  negate(accept_expr(expr, st))

visit_unary_minus(expr, st) ==
    LET negate(expr_result) ==
            IF ~IsOk(expr_result) THEN expr_result
            ELSE IF Read(expr_result.st, expr_result.cell).t = "Number"
                 THEN new_value_box(
                          F64(-Read(expr_result.st, expr_result.cell).n,
                              ~Read(expr_result.st, expr_result.cell).sign_negative),
                          expr_result.st)
                 ELSE Err(<<"Unary minus cannot be applied to",
                            Read(expr_result.st, expr_result.cell).t>>, expr_result.st)
    IN  negate(accept_expr(expr, st))

\* a mutant of arity_matches: any number of arguments is accepted
arity_matches_any(callable, arguments) == TRUE

\* the arity check of visit_call
arity_matches(callable, arguments) == get_arg_count(callable) = Len(arguments)

\* the loop of visit_call that evaluates arguments[i..] into evaluated
evaluate_arguments(arguments, i, evaluated, st) ==
    LET next(r) ==
            IF ~IsOk(r) THEN r
            ELSE evaluate_arguments(arguments, i + 1, Append(evaluated, r.cell), r.st)
    IN  IF i > Len(arguments) THEN [status |-> "ok", cells |-> evaluated, st |-> st]
        ELSE next(accept_expr(arguments[i], st))

\* the loop of visit_call that binds evaluated[i..] in the new frame; an error
\* returns at once, the frame still pushed.  No write guard is ever held while
\* a call binds its arguments, so try_read succeeds
bind_arguments(callable, evaluated, i, st) ==
    IF i > Len(evaluated) THEN Ok(NoCell, st)
    ELSE LET arg_name == get_arg_name(callable, i - 1) IN
         IF ~arg_name.ok THEN Err(<<"requested argument", i - 1>>, st)
         ELSE bind_arguments(callable, evaluated, i + 1,
                 define_variable(st, arg_name.name, Read(st, evaluated[i])))

\* the read guard of a returning call is dropped
drop_guard(st) == [st EXCEPT !.guards = SubSeq(@, 1, Len(@) - 1)]

Returned(r) == IF r.status \in {"ok", "err"} THEN [r EXCEPT !.st = drop_guard(r.st)] ELSE r

\* callee_guard, a read guard on the callee's cell, is held until visit_call
\* returns; every call uses up one step of the run
visit_call(callee, arguments, st) ==
    LET leave(body_result) ==
            IF body_result.status \in {"ok", "err"}
            THEN Returned([body_result EXCEPT !.st = pop_stack(body_result.st)])
            ELSE body_result
        run(callable, bound) ==
            IF ~IsOk(bound) THEN Returned(bound)
            ELSE leave(accept_stmt(get_body(callable.f), bound.st))
        bind(callable, evaluated) ==
            IF ~IsOk(evaluated) THEN Returned(evaluated)
            ELSE run(callable, bind_arguments(callable.f, evaluated.cells, 1,
                                              push_stack(evaluated.st)))
        call(callable, callee_result, held) ==
            IF callable.t # "Callable"
            THEN Err(<<"Can only call functions and classes">>, callee_result.st)
            ELSE IF ~arity_matches(callable.f, arguments)
            THEN Err(<<"Expected arguments", get_arg_count(callable.f), Len(arguments)>>,
                     callee_result.st)
            ELSE IF held.fuel = 0 THEN OutOfBounds(held)
            ELSE bind(callable, evaluate_arguments(arguments, 1, <<>>,
                                                   [held EXCEPT !.fuel = @ - 1]))
        guard(callee_result) ==
            IF ~IsOk(callee_result) THEN callee_result
            ELSE call(Read(callee_result.st, callee_result.cell), callee_result,
                      [callee_result.st EXCEPT !.guards = Append(@, callee_result.cell)])
    IN  guard(accept_expr(callee, st))

visit_literal_string(value, st) == new_value_box(String(value), st)

visit_literal_number(value, st) == new_value_box(Number(value), st)

visit_false(st) == new_value_box(Boolean(FALSE), st)

visit_true(st) == new_value_box(Boolean(TRUE), st)

visit_nil(st) == new_value_box(Nil, st)

visit_identifier(value, st) ==
    IF get_variable(st, value) # NoCell
    THEN Ok(get_variable(st, value), st)
    ELSE Err(<<"Undefined variable", value>>, st)

\* Expr::accept
accept_expr(e, st) ==
    CASE e.k = "Assign" -> visit_assign(e.left, e.right, st)
      [] e.k = "BinaryOr" -> visit_binary_or(e.left, e.right, st)
      [] e.k = "BinaryAnd" -> visit_binary_and(e.left, e.right, st)
      [] e.k = "BinaryEqual" -> visit_binary_equal(e.left, e.right, st)
      [] e.k = "BinaryNotEqual" -> visit_binary_not_equal(e.left, e.right, st)
      [] e.k = "BinaryLess" -> visit_binary_less(e.left, e.right, st)
      [] e.k = "BinaryLessEqual" -> visit_binary_less_equal(e.left, e.right, st)
      [] e.k = "BinaryGreater" -> visit_binary_greater(e.left, e.right, st)
      [] e.k = "BinaryGreaterEqual" -> visit_binary_greater_equal(e.left, e.right, st)
      [] e.k = "BinaryAdd" -> visit_binary_add(e.left, e.right, st)
      [] e.k = "BinarySub" -> visit_binary_sub(e.left, e.right, st)
      [] e.k = "BinaryMul" -> visit_binary_mul(e.left, e.right, st)
      [] e.k = "BinaryDiv" -> visit_binary_div(e.left, e.right, st)
      [] e.k = "UnaryBang" -> visit_unary_bang(e.expr, st)
      [] e.k = "UnaryMinus" -> visit_unary_minus(e.expr, st)
      [] e.k = "Call" -> visit_call(e.callee, e.arguments, st)
      [] e.k = "LiteralString" -> visit_literal_string(e.value, st)
      [] e.k = "LiteralNumber" -> visit_literal_number(e.value, st)
      [] e.k = "False" -> visit_false(st)
      [] e.k = "True" -> visit_true(st)
      [] e.k = "Nil" -> visit_nil(st)
      [] e.k = "Identifier" -> visit_identifier(e.id, st)

\* Stmt::accept: the six arms of stmt.rs
visit_stmt(s, st) ==
    CASE s.k = "Print" -> visit_print(s.expr, st)
      [] s.k = "Expr" -> visit_expr(s.expr, st)
      [] s.k = "VarDeclaration" -> visit_var_declaration(s.name, s.initializer, st)
      [] s.k = "Block" -> visit_block(s.stmts, st)
      [] s.k = "If" -> visit_if(s.condition, s.then_branch, s.else_branch, st)
      [] s.k = "While" -> visit_while(s.condition, s.body, st)

\* Stmt::accept of the Stmt the specification describes, which has a seventh
\* variant: the parser builds Stmt::FunctionDeclaration and the interpreter
\* implements visit_function_declaration, and stmt.rs declares neither the
\* variant nor its arm.  A FunctionDeclaration goes to
\* visit_function_declaration and every other statement to the six arms.
\* Noted are that a statement started and, when it finishes with a value or an
\* error, whether the frame stack is as deep as before
accept_stmt(s, st) ==
    LET note(r) ==
            IF r.status \in {"ok", "err"}
            THEN [r EXCEPT !.st.scope_ok = @ /\ Len(r.st.value_stack) = Len(st.value_stack)]
            ELSE r
    IN  IF s.k = "FunctionDeclaration"
        THEN note(visit_function_declaration(s.name, s.arguments, s.body,
                                             [st EXCEPT !.stmts = @ + 1]))
        ELSE note(visit_stmt(s, [st EXCEPT !.stmts = @ + 1]))

\* the for loop of execute over statements[i..]
RECURSIVE execute_statements(_, _, _)
execute_statements(statements, i, st) ==
    LET next(r) ==
            IF ~IsOk(r) \/ i = Len(statements) THEN r
            ELSE execute_statements(statements, i + 1, r.st)
    IN  IF i > Len(statements) THEN Ok(NoCell, st)
        ELSE next(accept_stmt(statements[i], st))

\* Interpreter::execute from the match on statements.len() on: the statements
\* parse returned are run
execute_parsed(statements, st) ==
    LET finish(r) == IF ~IsOk(r) THEN r ELSE new_value_box(Nil, r.st)
    IN  IF Len(statements) = 1
        THEN accept_stmt(statements[1], st)
        ELSE finish(execute_statements(statements, 1, st))

(***************************************************************************)
(* Cells are reference counted (Arc): a cell lives while a frame, the      *)
(* globals or a handle refers to it.  After every operation the cells      *)
(* still referenced are kept and numbered in the order the environment,    *)
(* the caller's handles and the returned handle reach them.                *)
(***************************************************************************)
Range(seq) == {seq[i] : i \in 1..Len(seq)}

BoundNames(m) == SelectSeq(NameOrder, LAMBDA n : n \in DOMAIN m)

MapCells(m) == [i \in 1..Len(BoundNames(m)) |-> m[BoundNames(m)[i]]]

RECURSIVE StackCells(_)
StackCells(stack) ==
    IF stack = <<>> THEN <<>> ELSE MapCells(Head(stack)) \o StackCells(Tail(stack))

RECURSIVE FirstOccurrences(_, _)
FirstOccurrences(seq, acc) ==
    IF seq = <<>> THEN acc
    ELSE FirstOccurrences(Tail(seq),
            IF Head(seq) = NoCell \/ Head(seq) \in Range(acc) THEN acc
            ELSE Append(acc, Head(seq)))

\* the cells still referenced, in the order they are reached
LiveCells(globals, stack, held, returned) ==
    FirstOccurrences(MapCells(globals) \o StackCells(stack) \o held \o <<returned>>, <<>>)

NewCell(live, cell) ==
    IF cell = NoCell THEN NoCell ELSE CHOOSE i \in 1..Len(live) : live[i] = cell

\* a frame without bindings stays the empty sequence
RenameMap(live, m) ==
    IF DOMAIN m = {} THEN <<>> ELSE [n \in DOMAIN m |-> NewCell(live, m[n])]

RenameStack(live, stack) == [i \in 1..Len(stack) |-> RenameMap(live, stack[i])]

RenameHeap(live, cells) == [i \in 1..Len(live) |-> cells[live[i]]]

RECURSIVE SortedCells(_)
SortedCells(cells) ==
    IF cells = {} THEN <<>>
    ELSE LET least == CHOOSE c \in cells : \A d \in cells : c <= d
         IN  <<least>> \o SortedCells(cells \ {least})

\* the cells the caller's handles keep alive
HandleCells(hs) == SortedCells({hs[i].cell : i \in DOMAIN hs})

(***************************************************************************)
(* The programs the interpreter is given, as the parser hands them to      *)
(* execute.  The Lox source of each is in its comment.                     *)
(***************************************************************************)
\* var a = 1; a = a + 1; a;
IncrementProgram ==
    <<VarDeclaration("a", LiteralNumber(1)),
      ExprStmt(Assign("a", BinaryAdd(Identifier("a"), LiteralNumber(1)))),
      ExprStmt(Identifier("a"))>>

\* var <name> = <outer>; { var <name> = <inner>; print <name>; } print <name>;
ShadowProgram(name, outer, inner) ==
    <<VarDeclaration(name, outer),
      Block(<<VarDeclaration(name, inner), PrintStmt(Identifier(name))>>),
      PrintStmt(Identifier(name))>>

\* "outer" and "inner"
Outer == <<"o", "u", "t", "e", "r">>

Inner == <<"i", "n", "n", "e", "r">>

ShadowPrograms ==
    {ShadowProgram("a", LiteralString(Outer), LiteralString(Inner)),
     ShadowProgram("b", LiteralNumber(1), LiteralNumber(2))}

\* fun f(x, y) { print <printed>; } f(2, 3);
ParameterProgram(printed) ==
    <<parse_function_declaration("f", <<"x", "y">>, Block(<<PrintStmt(printed)>>)),
      ExprStmt(Call(Identifier("f"), <<LiteralNumber(2), LiteralNumber(3)>>))>>

\* the expressions a body of f(x, y) prints: x + y, and y alone
ParameterReads == {BinaryAdd(Identifier("x"), Identifier("y")), Identifier("y")}

\* fun f() { print 1; 1; }
DeclareConstantFunction ==
    <<parse_function_declaration("f", <<>>,
        Block(<<PrintStmt(LiteralNumber(1)), ExprStmt(LiteralNumber(1))>>))>>

\* fun a() {}
DeclareFunctionA == <<parse_function_declaration("a", <<>>, Block(<<>>))>>

\* <callee>(<arguments>);
CallProgram(callee, arguments) == <<ExprStmt(Call(Identifier(callee), arguments))>>

\* the argument lists of the model's calls: (), (2, 3), (a = 1), (f())
ArgumentLists ==
    {<<>>, <<LiteralNumber(2), LiteralNumber(3)>>, <<Assign("a", LiteralNumber(1))>>,
     <<Call(Identifier("f"), <<>>)>>}

\* var <name> = <initializer>;
DeclareProgram(name, initializer) == <<VarDeclaration(name, initializer)>>

\* the initializers of a: 0, -0, 1, "", "hi", true, false, nil
Initializers ==
    {LiteralNumber(0), UnaryMinus(LiteralNumber(0)), LiteralNumber(1), LiteralString(<<>>),
     LiteralString(<<"h", "i">>), True, False, NilExpr}

\* if (<condition>) print 1; else print 2;
IfProgram(condition) ==
    <<If(condition, PrintStmt(LiteralNumber(1)), PrintStmt(LiteralNumber(2)))>>

\* while (<condition>) { print 1; a = nil; }
WhileProgram(condition) ==
    <<While(condition,
            Block(<<PrintStmt(LiteralNumber(1)), ExprStmt(Assign("a", NilExpr))>>))>>

\* <left> or <right>;
OrProgram(left, right) == <<ExprStmt(BinaryOr(left, right))>>

\* <left> and <right>;
AndProgram(left, right) == <<ExprStmt(BinaryAnd(left, right))>>

\* the left operands of the model's or/and: a, true, nil
LeftOperands == {Identifier("a"), True, NilExpr}

\* the right operands of the model's or/and: f(), (a = 1), 7
RightOperands == {Call(Identifier("f"), <<>>), Assign("a", LiteralNumber(1)), LiteralNumber(7)}

\* { var b = 1; { print b; } }
NestedReadProgram ==
    <<Block(<<VarDeclaration("b", LiteralNumber(1)),
              Block(<<PrintStmt(Identifier("b"))>>)>>)>>

\* { var x = 1; { var y = 2; f(); } }
NestedCallProgram ==
    <<Block(<<VarDeclaration("x", LiteralNumber(1)),
              Block(<<VarDeclaration("y", LiteralNumber(2)),
                      ExprStmt(Call(Identifier("f"), <<>>))>>)>>)>>

\* a = a;
SelfAssignProgram == <<ExprStmt(Assign("a", Identifier("a")))>>

\* <name> = <right>;
AssignProgram(name, right) == <<ExprStmt(Assign(name, right))>>

\* <left> + <right>;
AddProgram(left, right) == <<ExprStmt(BinaryAdd(left, right))>>

\* <left> == <right>;
EqualProgram(left, right) == <<ExprStmt(BinaryEqual(left, right))>>

\* <left> != <right>;
NotEqualProgram(left, right) == <<ExprStmt(BinaryNotEqual(left, right))>>

\* print 0 * -1;     0 / -1;     "" + -0;     -0 == 0;     print a - a;     1 / a;
ArithmeticPrograms ==
    {<<PrintStmt(BinaryMul(LiteralNumber(0), UnaryMinus(LiteralNumber(1))))>>,
     <<ExprStmt(BinaryDiv(LiteralNumber(0), UnaryMinus(LiteralNumber(1))))>>,
     <<ExprStmt(BinaryAdd(LiteralString(<<>>), UnaryMinus(LiteralNumber(0))))>>,
     <<ExprStmt(BinaryEqual(UnaryMinus(LiteralNumber(0)), LiteralNumber(0)))>>,
     <<PrintStmt(BinarySub(Identifier("a"), Identifier("a")))>>,
     <<ExprStmt(BinaryDiv(LiteralNumber(1), Identifier("a")))>>}

\* the operands of the model's +, == and !=: a, 1, "hi", true, nil
Terms ==
    {Identifier("a"), LiteralNumber(1), LiteralString(<<"h", "i">>), True, NilExpr}

\* the names the model's assignments write: a, and x, which is never a global
AssignedNames == {"a", "x"}

\* the right sides of the model's assignments: 1, (a = 2)
AssignedValues == {LiteralNumber(1), Assign("a", LiteralNumber(2))}

Programs ==
    {IncrementProgram, DeclareConstantFunction, DeclareFunctionA, NestedReadProgram,
     NestedCallProgram, SelfAssignProgram, IfProgram(Identifier("a")),
     WhileProgram(Identifier("a"))}
    \cup ShadowPrograms
    \cup {ParameterProgram(e) : e \in ParameterReads}
    \cup {CallProgram("f", args) : args \in ArgumentLists}
    \cup {DeclareProgram("a", e) : e \in Initializers}
    \cup {OrProgram(l, r) : l \in LeftOperands, r \in RightOperands}
    \cup {AndProgram(l, r) : l \in LeftOperands, r \in RightOperands}
    \cup {AssignProgram(name, r) : name \in AssignedNames, r \in AssignedValues}
    \cup {AddProgram(l, r) : l \in Terms, r \in Terms}
    \cup {EqualProgram(l, r) : l \in Terms, r \in Terms}
    \cup {NotEqualProgram(l, r) : l \in Terms, r \in Terms}
    \cup ArithmeticPrograms

(***************************************************************************)
(* The interpreter: one Interpreter, whose environment outlives each       *)
(* execute.  The caller drops the handle execute returned before the next  *)
(* call.                                                                   *)
(***************************************************************************)
\* the environment once the caller has dropped the handle the last operation
\* returned: only the cells the globals, the frames and kept handles refer to
Environment ==
    LET live == LiveCells(global_variables, value_stack, HandleCells(handles), NoCell) IN
    [global_variables |-> RenameMap(live, global_variables),
     value_stack |-> RenameStack(live, value_stack),
     heap |-> RenameHeap(live, heap)]

\* Interpreter::new, with EnvironmentImpl::new
InitInterpreter ==
    /\ global_variables = <<>>
    /\ value_stack = <<>>
    /\ heap = <<>>
    /\ handles = <<>>
    /\ last = [op |-> "new"]
    /\ blocked = FALSE

\* Resolver::new
InitResolver ==
    /\ scopes = <<>>
    /\ interpreter_local_map = <<>>

\* Scanner::new on the empty string
InitScanner == source = <<>>

\* a chunk of bytecode
Chunk(code, constants) == [code |-> code, constants |-> constants]

\* VirtualMachineImpl::new; no chunk has been run
InitVm ==
    /\ chunk = Chunk(<<>>, <<>>)
    /\ instruction_pointer = 0
    /\ vm_stack = <<>>
    /\ tracing = FALSE
    /\ running = FALSE

Init ==
    /\ InitInterpreter
    /\ tokens = <<>>
    /\ current = 0
    /\ current_parse_tree_id = 0
    /\ InitResolver
    /\ InitScanner
    /\ InitVm

\* what an operation that ended as r leaves: the environment, the handle it
\* returned and what it did, the cells renumbered
Outcome(r) ==
    LET live == LiveCells(r.st.global_variables, r.st.value_stack, <<>>, r.cell) IN
    [global_variables |-> RenameMap(live, r.st.global_variables),
     value_stack |-> RenameStack(live, r.st.value_stack),
     heap |-> RenameHeap(live, r.st.heap),
     status |-> r.status, cell |-> NewCell(live, r.cell), msg |-> r.msg,
     out |-> r.st.out, pushes |-> r.st.pushes, stmts |-> r.st.stmts,
     defines |-> r.st.defines, scope_ok |-> r.st.scope_ok]

Run(statements, environment) ==
    execute_parsed(statements,
            EvalState(environment.global_variables, environment.value_stack,
                      environment.heap, MaxSteps))

\* Interpreter::execute once its source is scanned and parsed to statements
ExecuteParsed(statements) ==
    /\ ~blocked
    /\ \E r \in {Run(statements, Environment)} : \E o \in {Outcome(r)} :
           /\ r.status # "bound"
           /\ global_variables' = o.global_variables
           /\ value_stack' = o.value_stack
           /\ heap' = o.heap
           /\ blocked' = (r.status = "hang")
           /\ last' = [op |-> "execute", arg |-> statements, pre |-> Environment,
                       status |-> o.status, cell |-> o.cell, msg |-> o.msg, out |-> o.out,
                       pushes |-> o.pushes, stmts |-> o.stmts, defines |-> o.defines,
                       scope_ok |-> o.scope_ok]
    /\ UNCHANGED <<handles, parser_vars, resolver_vars, scanner_vars, vm_vars>>

Next == \E statements \in Programs : ExecuteParsed(statements)

Spec == Init /\ [][Next]_vars


(***************************************************************************)
(* The environment used through its own interface, as its tests use it:    *)
(* push_stack, pop_stack, define_variable and get_variable, and writes     *)
(* through the handles get_variable returned.                              *)
(***************************************************************************)
EnvNames == {"a"}

EnvValues == {Number(1), Number(2)}

EnvState == EvalState(global_variables, value_stack, heap, MaxSteps)

Globals == 0

Nowhere == -1

\* where get_variable finds name: the top frame's index, Globals or Nowhere
get_level(st, name) ==
    IF Len(st.value_stack) > 0 /\ name \in DOMAIN st.value_stack[Len(st.value_stack)]
    THEN Len(st.value_stack)
    ELSE IF name \in DOMAIN st.global_variables THEN Globals ELSE Nowhere

\* where define_variable puts a binding
define_level(st) == Len(st.value_stack)

\* a mutant of get_handle: the caller gets a new cell holding a copy of the value
get_handle_copy(st, name) ==
    IF get_variable(st, name) = NoCell THEN Ok(NoCell, st)
    ELSE new_value_box(Read(st, get_variable(st, name)), st)

\* Option<ValueBox>::cloned: the caller's handle shares the binding's cell
get_handle(st, name) == Ok(get_variable(st, name), st)

\* a handle held by the caller, with the binding it came from: alive until that
\* frame is popped (its level is then forgotten), current until then and until
\* the name is defined again in that frame.  The caller's handles are a
\* sequence, in the order the caller got them: two handles got from the same
\* binding are two handles, and the caller may drop one and keep the other
Handle(name, cell, level) ==
    [name |-> name, cell |-> cell, level |-> level, alive |-> TRUE, current |-> TRUE]

RenameHandles(live, hs) == [i \in DOMAIN hs |-> [hs[i] EXCEPT !.cell = NewCell(live, @)]]

\* the environment st and the caller's handles hs after an operation
Settle(st, hs, op) ==
    \E live \in {LiveCells(st.global_variables, st.value_stack, HandleCells(hs), NoCell)} :
        /\ global_variables' = RenameMap(live, st.global_variables)
        /\ value_stack' = RenameStack(live, st.value_stack)
        /\ heap' = RenameHeap(live, st.heap)
        /\ handles' = RenameHandles(live, hs)
        /\ last' = IF "cell" \in DOMAIN op THEN [op EXCEPT !.cell = NewCell(live, @)] ELSE op
        /\ UNCHANGED <<blocked, parser_vars, resolver_vars, scanner_vars, vm_vars>>

EnvPush ==
    /\ Len(value_stack) < MaxDepth
    /\ Settle(push_stack(EnvState), handles, [op |-> "push"])

EnvPop ==
    Settle(pop_stack(EnvState),
           [i \in DOMAIN handles |->
               IF handles[i].level = Len(value_stack) /\ handles[i].level # Globals
               THEN [handles[i] EXCEPT !.alive = FALSE, !.current = FALSE, !.level = Nowhere]
               ELSE handles[i]],
           [op |-> "pop"])

EnvDefine(name, value) ==
    Settle(define_variable(EnvState, name, value),
           [i \in DOMAIN handles |->
               IF /\ handles[i].name = name
                  /\ handles[i].level = define_level(EnvState)
                  /\ handles[i].alive
               THEN [handles[i] EXCEPT !.current = FALSE]
               ELSE handles[i]],
           [op |-> "define"])

EnvGet(name) ==
    /\ Len(handles) < MaxHandles
    /\ \E r \in {get_handle(EnvState, name)} :
          IF r.cell = NoCell
          THEN Settle(r.st, handles, [op |-> "get", name |-> name, cell |-> NoCell])
          ELSE Settle(r.st, Append(handles, Handle(name, r.cell, get_level(EnvState, name))),
                      [op |-> "get", name |-> name, cell |-> r.cell])

\* *handle.write().unwrap() = Box::new(value)
HandleWrite(h, value) ==
    Settle([EnvState EXCEPT !.heap[h.cell] = value], handles,
           [op |-> "write", cell |-> h.cell, value |-> value])

\* the caller drops the handle of index i, and keeps the others
HandleDrop(i) ==
    Settle(EnvState, SubSeq(handles, 1, i - 1) \o SubSeq(handles, i + 1, Len(handles)),
           [op |-> "drop"])

NextEnv ==
    \/ EnvPush
    \/ EnvPop
    \/ \E name \in EnvNames, value \in EnvValues : EnvDefine(name, value)
    \/ \E name \in EnvNames : EnvGet(name)
    \/ \E i \in DOMAIN handles, value \in EnvValues : HandleWrite(handles[i], value)
    \/ \E i \in DOMAIN handles : HandleDrop(i)

SpecEnv == Init /\ [][NextEnv]_vars

(***************************************************************************)
(* token.rs: a token is its kind, and for a literal its content            *)
(***************************************************************************)
Token(kind) == [kind |-> kind]

NumberLiteral(n) == [kind |-> "NumberLiteral", value |-> n]

StringLiteral(s) == [kind |-> "StringLiteral", value |-> s]

TokenIdentifier(s) == [kind |-> "Identifier", value |-> s]

Eof == Token("Eof")

(***************************************************************************)
(* parser.rs.  A Parser is its token vector, the index `current` (counted  *)
(* from 0, as in the code) and the next parse-tree id.  A parse returns    *)
(* Ok(value) or Err(ParseError), or does not return: it panics on an index *)
(* past the end of the vector, or recurses until the stack overflows.      *)
(***************************************************************************)
\* Expr::Assign and Expr::Identifier as the parser builds them, with their ids
ExprAssign(parse_tree_id, left, right) ==
    [k |-> "Assign", parse_tree_id |-> parse_tree_id, left |-> left, right |-> right]

ExprIdentifier(parse_tree_id, id) ==
    [k |-> "Identifier", parse_tree_id |-> parse_tree_id, id |-> id]

Parser(toks, cur, id) == [tokens |-> toks, current |-> cur, current_parse_tree_id |-> id]

Parsed(value, p) == [status |-> "ok", value |-> value, message |-> "", p |-> p]

ParseError(message, p) == [status |-> "error", value |-> None, message |-> message, p |-> p]

\* tokens[current] with current >= tokens.len()
Panic(p) == [status |-> "panic", value |-> None, message |-> "index out of bounds", p |-> p]

\* a call that calls itself with the parser as it found it
StackOverflow(p) == [status |-> "overflow", value |-> None, message |-> "", p |-> p]

is_at_end(p) == p.current >= Len(p.tokens) \/ p.tokens[p.current + 1] = Eof

peek(p) == p.tokens[p.current + 1]

\* the parser after advance; the token advance returns is previous of it
advance(p) == IF ~is_at_end(p) THEN [p EXCEPT !.current = @ + 1] ELSE p

previous(p) == p.tokens[p.current]

check(p, token) == IF is_at_end(p) THEN FALSE ELSE peek(p) = token

\* whether one of the tokens is next, and the parser advanced past it if so
match_token(p, toks) ==
    IF \E token \in toks : check(p, token)
    THEN [matched |-> TRUE, p |-> advance(p)]
    ELSE [matched |-> FALSE, p |-> p]

\* a mutant of get_next_parse_tree_id: the counter is returned and not advanced
get_next_parse_tree_id_stuck(p) == p

get_next_parse_tree_id(p) == [p EXCEPT !.current_parse_tree_id = @ + 1]

\* if !self.match_token(vec![token]) { return Err(message) } ... Ok(value)
expect(p, token, message, value) ==
    IF match_token(p, {token}).matched
    THEN Parsed(value, match_token(p, {token}).p)
    ELSE ParseError(message, p)

RECURSIVE parse_statement(_)
RECURSIVE parse_expression(_)
RECURSIVE parse_expression_unary(_)
RECURSIVE parse_operand(_, _)
RECURSIVE binary_loop(_, _, _)
RECURSIVE call_arguments(_, _)
RECURSIVE parse_block_statements(_, _)
RECURSIVE function_arguments(_, _)
RECURSIVE parse_loop(_, _)

\* the operator tokens each while loop matches
level_operators(level) ==
    CASE level = "or" -> {Token("Or")}
      [] level = "and" -> {Token("And")}
      [] level = "equality" -> {Token("EqualEqual"), Token("BangEqual")}
      [] level = "comparison" ->
            {Token("Less"), Token("LessEqual"), Token("Greater"), Token("GreaterEqual")}
      [] level = "add_sub" -> {Token("Plus"), Token("Minus")}
      [] level = "mul_div" -> {Token("Star"), Token("Slash")}

\* left_expr = match operator { ... }
binary_expr(operator, left_expr, right_expr) ==
    CASE operator = Token("Or") -> BinaryOr(left_expr, right_expr)
      [] operator = Token("And") -> BinaryAnd(left_expr, right_expr)
      [] operator = Token("EqualEqual") -> BinaryEqual(left_expr, right_expr)
      [] operator = Token("BangEqual") -> BinaryNotEqual(left_expr, right_expr)
      [] operator = Token("Less") -> BinaryLess(left_expr, right_expr)
      [] operator = Token("LessEqual") -> BinaryLessEqual(left_expr, right_expr)
      [] operator = Token("Greater") -> BinaryGreater(left_expr, right_expr)
      [] operator = Token("GreaterEqual") -> BinaryGreaterEqual(left_expr, right_expr)
      [] operator = Token("Plus") -> BinaryAdd(left_expr, right_expr)
      [] operator = Token("Minus") -> BinarySub(left_expr, right_expr)
      [] operator = Token("Star") -> BinaryMul(left_expr, right_expr)
      [] operator = Token("Slash") -> BinaryDiv(left_expr, right_expr)

parse_expression_parenthesis(p) ==
    LET close(r) ==
            IF r.status # "ok" THEN r
            ELSE expect(r.p, Token("RightParenthesis"), "Expected ')' after expression.",
                        r.value)
    IN  close(parse_expression(p))

\* format!("Unexpected token while parsing primary: {:?}", token) for the tokens
\* that reach the last arm of parse_expression_primary: the Debug form of a
\* token without a payload is the name of its variant.  The last three are the
\* names scanner.rs gives to * / and =
unexpected_token(token) ==
    CASE token = Token("RightParenthesis") ->
            "Unexpected token while parsing primary: RightParenthesis"
      [] token = Token("LeftBrace") ->
            "Unexpected token while parsing primary: LeftBrace"
      [] token = Token("RightBrace") ->
            "Unexpected token while parsing primary: RightBrace"
      [] token = Token("Comma") ->
            "Unexpected token while parsing primary: Comma"
      [] token = Token("Dot") ->
            "Unexpected token while parsing primary: Dot"
      [] token = Token("Semicolon") ->
            "Unexpected token while parsing primary: Semicolon"
      [] token = Token("Plus") ->
            "Unexpected token while parsing primary: Plus"
      [] token = Token("Minus") ->
            "Unexpected token while parsing primary: Minus"
      [] token = Token("Star") ->
            "Unexpected token while parsing primary: Star"
      [] token = Token("Slash") ->
            "Unexpected token while parsing primary: Slash"
      [] token = Token("Equal") ->
            "Unexpected token while parsing primary: Equal"
      [] token = Token("Less") ->
            "Unexpected token while parsing primary: Less"
      [] token = Token("Greater") ->
            "Unexpected token while parsing primary: Greater"
      [] token = Token("Bang") ->
            "Unexpected token while parsing primary: Bang"
      [] token = Token("EqualEqual") ->
            "Unexpected token while parsing primary: EqualEqual"
      [] token = Token("LessEqual") ->
            "Unexpected token while parsing primary: LessEqual"
      [] token = Token("GreaterEqual") ->
            "Unexpected token while parsing primary: GreaterEqual"
      [] token = Token("BangEqual") ->
            "Unexpected token while parsing primary: BangEqual"
      [] token = Token("And") ->
            "Unexpected token while parsing primary: And"
      [] token = Token("Class") ->
            "Unexpected token while parsing primary: Class"
      [] token = Token("Else") ->
            "Unexpected token while parsing primary: Else"
      [] token = Token("Fun") ->
            "Unexpected token while parsing primary: Fun"
      [] token = Token("For") ->
            "Unexpected token while parsing primary: For"
      [] token = Token("If") ->
            "Unexpected token while parsing primary: If"
      [] token = Token("Or") ->
            "Unexpected token while parsing primary: Or"
      [] token = Token("Print") ->
            "Unexpected token while parsing primary: Print"
      [] token = Token("Return") ->
            "Unexpected token while parsing primary: Return"
      [] token = Token("Super") ->
            "Unexpected token while parsing primary: Super"
      [] token = Token("This") ->
            "Unexpected token while parsing primary: This"
      [] token = Token("Var") ->
            "Unexpected token while parsing primary: Var"
      [] token = Token("While") ->
            "Unexpected token while parsing primary: While"
      [] token = Token("Eof") ->
            "Unexpected token while parsing primary: Eof"
      [] token = Token("Times") ->
            "Unexpected token while parsing primary: Times"
      [] token = Token("Divide") ->
            "Unexpected token while parsing primary: Divide"
      [] token = Token("Assign") ->
            "Unexpected token while parsing primary: Assign"

parse_expression_primary(p) ==
    CASE previous(p).kind = "NumberLiteral" -> Parsed(LiteralNumber(previous(p).value), p)
      [] previous(p).kind = "StringLiteral" -> Parsed(LiteralString(previous(p).value), p)
      [] previous(p).kind = "Identifier" ->
            Parsed(ExprIdentifier(p.current_parse_tree_id, previous(p).value),
                   get_next_parse_tree_id(p))
      [] previous(p) = Token("False") -> Parsed(False, p)
      [] previous(p) = Token("True") -> Parsed(True, p)
      [] previous(p) = Token("Nil") -> Parsed(NilExpr, p)
      [] previous(p) = Token("LeftParenthesis") -> parse_expression_parenthesis(p)
      [] OTHER -> ParseError(unexpected_token(previous(p)), p)

\* the loop of parse_expression_call over the arguments
call_arguments(arguments, p) ==
    LET comma(r) ==
            IF r.status # "ok" THEN r
            ELSE IF match_token(r.p, {Token("Comma")}).matched
                 THEN call_arguments(Append(arguments, r.value),
                                     match_token(r.p, {Token("Comma")}).p)
                 ELSE Parsed(Append(arguments, r.value), r.p)
    IN  comma(parse_expression(p))

parse_expression_call(p) ==
    LET close(callee, r) ==
            IF r.status # "ok" THEN r
            ELSE expect(r.p, Token("RightParenthesis"),
                        "Expected ')' for closing function call.", Call(callee, r.value))
        arguments(callee, q) ==
            IF match_token(q, {Token("RightParenthesis")}).matched
            THEN Parsed(Call(callee, <<>>), match_token(q, {Token("RightParenthesis")}).p)
            ELSE close(callee, call_arguments(<<>>, q))
        callee(r) ==
            IF r.status # "ok" THEN r
            ELSE IF ~match_token(r.p, {Token("LeftParenthesis")}).matched
                 THEN r
                 ELSE arguments(r.value, match_token(r.p, {Token("LeftParenthesis")}).p)
    IN  callee(parse_expression_primary(p))

\* advance is called whatever the next token is; after it, previous is the
\* token the match looks at.  At the end of the tokens advance does not move:
\* the call for the operand of a `!` or `-` found there, and the one that
\* parse_expression_parenthesis makes for the expression after a `(` found
\* there, is this same call on the same parser, and so on without end
parse_expression_unary(p) ==
    LET operand(kind, r) ==
            IF r.status # "ok" THEN r
            ELSE Parsed(IF kind = "Bang" THEN UnaryBang(r.value) ELSE UnaryMinus(r.value), r.p)
        operator(q) ==
            IF q = p /\ previous(q) \in {Token("Bang"), Token("Minus"), Token("LeftParenthesis")}
            THEN StackOverflow(q)
            ELSE IF previous(q) \in {Token("Bang"), Token("Minus")}
                 THEN operand(previous(q).kind, parse_expression_unary(q))
                 ELSE parse_expression_call(q)
    IN  operator(advance(p))

\* a mutant of binary_loop: the right operand is the rest of the chain
binary_loop_right(level, left_expr, p) ==
    LET rest(operator, r) ==
            IF r.status # "ok" THEN r
            ELSE Parsed(binary_expr(operator, left_expr, r.value), r.p)
        operand(r) ==
            IF r.status # "ok" THEN r ELSE binary_loop(level, r.value, r.p)
        right(m) ==
            IF ~m.matched THEN Parsed(left_expr, p)
            ELSE rest(previous(m.p), operand(parse_operand(level, m.p)))
    IN  right(match_token(p, level_operators(level)))

\* while self.match_token(operators) { operator; right_expr; left_expr = ... }
binary_loop(level, left_expr, p) ==
    LET fold(operator, r) ==
            IF r.status # "ok" THEN r
            ELSE binary_loop(level, binary_expr(operator, left_expr, r.value), r.p)
        right(m) ==
            IF ~m.matched THEN Parsed(left_expr, p)
            ELSE fold(previous(m.p), parse_operand(level, m.p))
    IN  right(match_token(p, level_operators(level)))

\* a level of binary operators: an operand of the next level, then the loop
parse_binary(level, p) ==
    LET loop(r) == IF r.status # "ok" THEN r ELSE binary_loop(level, r.value, r.p)
    IN  loop(parse_operand(level, p))

parse_expression_mul_div(p) == parse_binary("mul_div", p)

parse_expression_add_sub(p) == parse_binary("add_sub", p)

parse_expression_comparison(p) == parse_binary("comparison", p)

parse_expression_equality(p) == parse_binary("equality", p)

parse_expression_and(p) == parse_binary("and", p)

parse_expression_or(p) == parse_binary("or", p)

\* the function each level calls for its operands
parse_operand(level, p) ==
    CASE level = "or" -> parse_expression_and(p)
      [] level = "and" -> parse_expression_equality(p)
      [] level = "equality" -> parse_expression_comparison(p)
      [] level = "comparison" -> parse_expression_add_sub(p)
      [] level = "add_sub" -> parse_expression_mul_div(p)
      [] level = "mul_div" -> parse_expression_unary(p)

parse_expression_assignment(p) ==
    LET assign(expr, r) ==
            IF r.status # "ok" THEN r
            ELSE IF expr.k = "Identifier"
                 THEN Parsed(ExprAssign(r.p.current_parse_tree_id, expr.id, r.value),
                             get_next_parse_tree_id(r.p))
                 ELSE ParseError("Invalid assignment target.", r.p)
        target(r) ==
            IF r.status # "ok" THEN r
            ELSE IF match_token(r.p, {Token("Equal")}).matched
                 THEN assign(r.value, parse_expression_or(match_token(r.p, {Token("Equal")}).p))
                 ELSE r
    IN  target(parse_expression_or(p))

parse_expression(p) == parse_expression_assignment(p)

\* the while loop of parse_statement_block
parse_block_statements(statements, p) ==
    LET next(r) ==
            IF r.status # "ok" THEN r
            ELSE parse_block_statements(Append(statements, r.value), r.p)
    IN  IF ~is_at_end(p) /\ ~check(p, Token("RightBrace"))
        THEN next(parse_statement(p))
        ELSE expect(p, Token("RightBrace"), "Expected '}' after block.", Block(statements))

parse_statement_block(p) == parse_block_statements(<<>>, advance(p))

parse_statement_print(p) ==
    LET semicolon(r) ==
            IF r.status # "ok" THEN r
            ELSE expect(r.p, Token("Semicolon"), "Expected ';' after expression.",
                        PrintStmt(r.value))
    IN  semicolon(parse_expression(advance(p)))

parse_statement_expression(p) ==
    LET semicolon(r) ==
            IF r.status # "ok" THEN r
            ELSE expect(r.p, Token("Semicolon"), "Expected ';' after expression.",
                        ExprStmt(r.value))
    IN  semicolon(parse_expression(p))

parse_statement_var_declaration(p) ==
    LET declare(identifier, initializer, q) ==
            expect(q, Token("Semicolon"), "Expected ';' after variable declaration.",
                   VarDeclaration(identifier, initializer))
        initialize(identifier, r) ==
            IF r.status # "ok" THEN r ELSE declare(identifier, r.value, r.p)
        name(q) ==
            IF previous(q).kind # "Identifier"
            THEN ParseError("Expected identifier after var.", q)
            ELSE IF match_token(q, {Token("Equal")}).matched
                 THEN initialize(previous(q).value,
                                 parse_expression(match_token(q, {Token("Equal")}).p))
                 ELSE declare(previous(q).value, None, q)
    IN  name(advance(advance(p)))

parse_statement_if(p) ==
    LET else_branch(condition, then_branch, r) ==
            IF r.status # "ok" THEN r
            ELSE Parsed(If(condition, then_branch, r.value), r.p)
        then_branch(condition, r) ==
            IF r.status # "ok" THEN r
            ELSE IF match_token(r.p, {Token("Else")}).matched
                 THEN else_branch(condition, r.value,
                                  parse_statement(match_token(r.p, {Token("Else")}).p))
                 ELSE Parsed(If(condition, r.value, None), r.p)
        condition(r) ==
            IF r.status # "ok" THEN r
            ELSE IF ~match_token(r.p, {Token("RightParenthesis")}).matched
                 THEN ParseError("Expected ')' after if condition.", r.p)
                 ELSE then_branch(r.value,
                                  parse_statement(match_token(r.p, {Token("RightParenthesis")}).p))
        open(q) ==
            IF ~match_token(q, {Token("LeftParenthesis")}).matched
            THEN ParseError("Expected '(' after if.", q)
            ELSE condition(parse_expression(match_token(q, {Token("LeftParenthesis")}).p))
    IN  open(advance(p))

parse_statement_while(p) ==
    LET body(condition, r) ==
            IF r.status # "ok" THEN r ELSE Parsed(While(condition, r.value), r.p)
        condition(r) ==
            IF r.status # "ok" THEN r
            ELSE IF ~match_token(r.p, {Token("RightParenthesis")}).matched
                 THEN ParseError("Expected ')' after while condition.", r.p)
                 ELSE body(r.value,
                           parse_statement(match_token(r.p, {Token("RightParenthesis")}).p))
        open(q) ==
            IF ~match_token(q, {Token("LeftParenthesis")}).matched
            THEN ParseError("Expected '(' after while.", q)
            ELSE condition(parse_expression(match_token(q, {Token("LeftParenthesis")}).p))
    IN  open(advance(p))

\* the while loop of parse_statement_function_declaration
function_arguments(arguments, p) ==
    LET argument(q) ==
            IF previous(q).kind # "Identifier"
            THEN ParseError("Expected identifier in function arguments.", q)
            ELSE IF match_token(q, {Token("Comma")}).matched
                 THEN function_arguments(Append(arguments, previous(q).value),
                                         match_token(q, {Token("Comma")}).p)
                 ELSE Parsed(Append(arguments, previous(q).value), q)
    IN  IF ~is_at_end(p) /\ ~check(p, Token("RightParenthesis"))
        THEN argument(advance(p))
        ELSE Parsed(arguments, p)

parse_statement_function_declaration(p) ==
    LET body(name, arguments, r) ==
            IF r.status # "ok" THEN r
            ELSE Parsed(parse_function_declaration(name, arguments, r.value), r.p)
        close(name, r) ==
            IF r.status # "ok" THEN r
            ELSE IF ~match_token(r.p, {Token("RightParenthesis")}).matched
                 THEN ParseError("Expected ')' after function arguments.", r.p)
                 ELSE body(name, r.value,
                           parse_statement(match_token(r.p, {Token("RightParenthesis")}).p))
        open(q) ==
            IF previous(q).kind # "Identifier"
            THEN ParseError("Expected identifier after fun.", q)
            ELSE IF ~match_token(q, {Token("LeftParenthesis")}).matched
                 THEN ParseError("Expected '(' after function name.", q)
                 ELSE close(previous(q).value,
                            function_arguments(<<>>, match_token(q, {Token("LeftParenthesis")}).p))
    IN  open(advance(advance(p)))

\* self.peek() indexes the vector without a check
parse_statement(p) ==
    IF p.current >= Len(p.tokens) THEN Panic(p)
    ELSE CASE peek(p) = Token("Print") -> parse_statement_print(p)
           [] peek(p) = Token("Var") -> parse_statement_var_declaration(p)
           [] peek(p) = Token("LeftBrace") -> parse_statement_block(p)
           [] peek(p) = Token("If") -> parse_statement_if(p)
           [] peek(p) = Token("While") -> parse_statement_while(p)
           [] peek(p) = Token("Fun") -> parse_statement_function_declaration(p)
           [] OTHER -> parse_statement_expression(p)

\* the while loop of parse
parse_loop(statements, p) ==
    LET push(r) ==
            IF r.status # "ok" THEN r ELSE parse_loop(Append(statements, r.value), r.p)
    IN  IF ~is_at_end(p) THEN push(parse_statement(p)) ELSE Parsed(statements, p)

parse(p) == parse_loop(<<>>, p)

(***************************************************************************)
(* The parser at work: Parser::new(tokens) for a token vector of the model *)
(* and then parse, which may be called again on the same Parser.           *)
(***************************************************************************)
\* the tokens the short vectors of the model are made of:
\* - 1 a = ( ) ; if and Eof
TokenAlphabet ==
    {Token("Minus"), NumberLiteral(1), TokenIdentifier("a"), Token("Equal"),
     Token("RightParenthesis"), Token("Semicolon"), Token("If"), Eof}

\* every vector of at most MaxTokens tokens of the alphabet
ShortVectors == UNION {[1..n -> TokenAlphabet] : n \in 0..MaxTokens}

\* the tokens of the binary operators, lowest level first
BinaryOperators ==
    <<Token("Or"), Token("And"), Token("EqualEqual"), Token("BangEqual"), Token("Less"),
      Token("LessEqual"), Token("Greater"), Token("GreaterEqual"), Token("Plus"),
      Token("Minus"), Token("Star"), Token("Slash")>>

\* 1 <first> 2 <second> 3 ;
OperatorChain(first, second) ==
    <<NumberLiteral(1), first, NumberLiteral(2), second, NumberLiteral(3), Token("Semicolon")>>

\* - 1 <operator> 2 ;
UnaryChain(operator) ==
    <<Token("Minus"), NumberLiteral(1), operator, NumberLiteral(2), Token("Semicolon")>>

\* a = b = c ;
AssignChain ==
    <<TokenIdentifier("a"), Token("Equal"), TokenIdentifier("b"), Token("Equal"),
      TokenIdentifier("c"), Token("Semicolon")>>

\* f ( ) ( ) ;
CallChain ==
    <<TokenIdentifier("f"), Token("LeftParenthesis"), Token("RightParenthesis"),
      Token("LeftParenthesis"), Token("RightParenthesis"), Token("Semicolon")>>

\* f ( 1 ) ( a , 2 ) ;
ArgumentCallChain ==
    <<TokenIdentifier("f"), Token("LeftParenthesis"), NumberLiteral(1),
      Token("RightParenthesis"), Token("LeftParenthesis"), TokenIdentifier("a"),
      Token("Comma"), NumberLiteral(2), Token("RightParenthesis"), Token("Semicolon")>>

\* !     ! Eof     1 + !     print - Eof
TrailingUnary ==
    {<<Token("Bang")>>, <<Token("Bang"), Eof>>,
     <<NumberLiteral(1), Token("Plus"), Token("Bang")>>,
     <<Token("Print"), Token("Minus"), Eof>>}

\* (     ( 1 ) ;     if ( 1 )     if ( 1 ) Eof
Unclosed ==
    {<<Token("LeftParenthesis")>>,
     <<Token("LeftParenthesis"), NumberLiteral(1), Token("RightParenthesis"),
       Token("Semicolon")>>,
     <<Token("If"), Token("LeftParenthesis"), NumberLiteral(1), Token("RightParenthesis")>>,
     <<Token("If"), Token("LeftParenthesis"), NumberLiteral(1), Token("RightParenthesis"),
       Eof>>}

\* fun f ( a , b ) { print a ; }     var a = "hi" ; { a ; }     while ( a ) a = nil ;
\* if ( true ) print 1 ; else print false ;     var a ;
Statements ==
    {<<Token("Fun"), TokenIdentifier("f"), Token("LeftParenthesis"), TokenIdentifier("a"),
       Token("Comma"), TokenIdentifier("b"), Token("RightParenthesis"), Token("LeftBrace"),
       Token("Print"), TokenIdentifier("a"), Token("Semicolon"), Token("RightBrace")>>,
     <<Token("Var"), TokenIdentifier("a"), Token("Equal"), StringLiteral(<<"h", "i">>),
       Token("Semicolon"), Token("LeftBrace"), TokenIdentifier("a"), Token("Semicolon"),
       Token("RightBrace")>>,
     <<Token("While"), Token("LeftParenthesis"), TokenIdentifier("a"),
       Token("RightParenthesis"), TokenIdentifier("a"), Token("Equal"), Token("Nil"),
       Token("Semicolon")>>,
     <<Token("If"), Token("LeftParenthesis"), Token("True"), Token("RightParenthesis"),
       Token("Print"), NumberLiteral(1), Token("Semicolon"), Token("Else"), Token("Print"),
       Token("False"), Token("Semicolon"), Eof>>,
     <<Token("Var"), TokenIdentifier("a"), Token("Semicolon")>>}

TokenVectors ==
    ShortVectors
    \cup {OperatorChain(BinaryOperators[i], BinaryOperators[j]) :
            i \in 1..Len(BinaryOperators), j \in 1..Len(BinaryOperators)}
    \cup {UnaryChain(BinaryOperators[i]) : i \in 1..Len(BinaryOperators)}
    \cup {AssignChain, CallChain, ArgumentCallChain} \cup TrailingUnary \cup Unclosed
    \cup Statements

\* Parser::new(tokens)
InitParse ==
    /\ InitInterpreter
    /\ tokens \in TokenVectors
    /\ current = 0
    /\ current_parse_tree_id = 0
    /\ InitResolver
    /\ InitScanner
    /\ InitVm

\* Parser::parse; a parse that panicked or overflowed the stack ended the program
Parse ==
    /\ last.op = "parse" => last.status \in {"ok", "error"}
    /\ \E r \in {parse(Parser(tokens, current, current_parse_tree_id))} :
           /\ current' = r.p.current
           /\ current_parse_tree_id' = r.p.current_parse_tree_id
           /\ last' = [op |-> "parse", from |-> current, status |-> r.status,
                       statements |-> r.value, message |-> r.message,
                       first_id |-> current_parse_tree_id]
    /\ UNCHANGED <<tokens, interpreter_vars, resolver_vars, scanner_vars, vm_vars>>

NextParse == Parse

SpecParse == InitParse /\ [][NextParse]_vars

(***************************************************************************)
(* resolver.rs.  A Resolver is its stack of scopes, each a map from a name *)
(* to whether it is defined yet, and the map from parse-tree ids to the    *)
(* number resolve_local found.  Scopes are counted from 0, the outermost.  *)
(***************************************************************************)
ResolverState(scope_stack, local_map) ==
    [scopes |-> scope_stack, interpreter_local_map |-> local_map]

Resolved(rs) == [status |-> "ok", msg |-> <<>>, rs |-> rs]

ResolveError(msg, rs) == [status |-> "err", msg |-> msg, rs |-> rs]

begin_scope(rs) == [rs EXCEPT !.scopes = Append(@, <<>>)]

end_scope(rs) ==
    IF Len(rs.scopes) = 0 THEN rs ELSE [rs EXCEPT !.scopes = SubSeq(@, 1, Len(@) - 1)]

\* nothing is recorded outside of every scope
declare(rs, name) ==
    IF Len(rs.scopes) = 0 THEN rs
    ELSE [rs EXCEPT !.scopes[Len(rs.scopes)] = (name :> FALSE) @@ @]

define(rs, name) ==
    IF Len(rs.scopes) = 0 THEN rs
    ELSE [rs EXCEPT !.scopes[Len(rs.scopes)] = (name :> TRUE) @@ @]

RECURSIVE resolve_local_from(_, _, _, _)
RECURSIVE resolver_accept_expr(_, _)
RECURSIVE resolver_accept_stmt(_, _)
RECURSIVE resolve_expressions(_, _, _)
RECURSIVE resolve_statements(_, _, _)
RECURSIVE declare_arguments(_, _, _)

\* the loop of resolve_local from the scope of index i down to scope 0: every
\* scope that has the name inserts its index, there is no break
resolve_local_from(rs, parse_tree_id, name, i) ==
    IF i < 0 THEN rs
    ELSE IF name \in DOMAIN rs.scopes[i + 1]
         THEN resolve_local_from(
                  [rs EXCEPT !.interpreter_local_map = (parse_tree_id :> i) @@ @],
                  parse_tree_id, name, i - 1)
         ELSE resolve_local_from(rs, parse_tree_id, name, i - 1)

resolve_local(rs, parse_tree_id, name) ==
    resolve_local_from(rs, parse_tree_id, name, Len(rs.scopes) - 1)

\* for stmt in stmts { stmt.accept(self)?; } from the statement of index i
resolve_statements(stmts, i, rs) ==
    LET next(r) == IF r.status # "ok" THEN r ELSE resolve_statements(stmts, i + 1, r.rs)
    IN  IF i > Len(stmts) THEN Resolved(rs) ELSE next(resolver_accept_stmt(stmts[i], rs))

\* for arg in arguments { arg.accept(self)?; } from the argument of index i
resolve_expressions(exprs, i, rs) ==
    LET next(r) == IF r.status # "ok" THEN r ELSE resolve_expressions(exprs, i + 1, r.rs)
    IN  IF i > Len(exprs) THEN Resolved(rs) ELSE next(resolver_accept_expr(exprs[i], rs))

\* declare and define each argument, from the argument of index i
declare_arguments(arguments, i, rs) ==
    IF i > Len(arguments) THEN rs
    ELSE declare_arguments(arguments, i + 1, define(declare(rs, arguments[i]), arguments[i]))

\* an error in the body returns before end_scope
resolve_function(arguments, body, rs) ==
    LET leave(r) == IF r.status # "ok" THEN r ELSE Resolved(end_scope(r.rs))
    IN  leave(resolver_accept_stmt(body, declare_arguments(arguments, 1, begin_scope(rs))))

\* Resolver's visit_print and visit_expr
resolver_visit_print(expr, rs) == resolver_accept_expr(expr, rs)

resolver_visit_var_declaration(name, initializer, rs) ==
    LET finish(r) == IF r.status # "ok" THEN r ELSE Resolved(define(r.rs, name))
    IN  IF initializer = None
        THEN Resolved(define(declare(rs, name), name))
        ELSE finish(resolver_accept_expr(initializer, declare(rs, name)))

\* an error in a statement returns before end_scope
resolver_visit_block(stmts, rs) ==
    LET leave(r) == IF r.status # "ok" THEN r ELSE Resolved(end_scope(r.rs))
    IN  leave(resolve_statements(stmts, 1, begin_scope(rs)))

resolver_visit_if(condition, then_branch, else_branch, rs) ==
    LET otherwise(r) ==
            IF r.status # "ok" \/ else_branch = None THEN r
            ELSE resolver_accept_stmt(else_branch, r.rs)
        then(r) ==
            IF r.status # "ok" THEN r ELSE otherwise(resolver_accept_stmt(then_branch, r.rs))
    IN  then(resolver_accept_expr(condition, rs))

resolver_visit_while(condition, body, rs) ==
    LET loop(r) == IF r.status # "ok" THEN r ELSE resolver_accept_stmt(body, r.rs)
    IN  loop(resolver_accept_expr(condition, rs))

resolver_visit_function_declaration(name, arguments, body, rs) ==
    resolve_function(arguments, body, define(declare(rs, name), name))

resolver_visit_assign(assign, rs) ==
    LET local(r) ==
            IF r.status # "ok" THEN r
            ELSE Resolved(resolve_local(r.rs, assign.parse_tree_id, assign.left))
    IN  local(resolver_accept_expr(assign.right, rs))

\* Resolver's visit_binary_or ... visit_binary_div: left, then right
resolver_visit_binary(left, right, rs) ==
    LET second(r) == IF r.status # "ok" THEN r ELSE resolver_accept_expr(right, r.rs)
    IN  second(resolver_accept_expr(left, rs))

\* Resolver's visit_unary_bang and visit_unary_minus
resolver_visit_unary(expr, rs) == resolver_accept_expr(expr, rs)

\* only the name is looked at, in the innermost scope; resolve_local is not called
resolver_visit_identifier(value, rs) ==
    IF /\ Len(rs.scopes) > 0
       /\ value \in DOMAIN rs.scopes[Len(rs.scopes)]
       /\ ~rs.scopes[Len(rs.scopes)][value]
    THEN ResolveError(<<"cannot read local variable in its own initializer.", value>>, rs)
    ELSE Resolved(rs)

resolver_visit_call(callee, arguments, rs) ==
    LET args(r) == IF r.status # "ok" THEN r ELSE resolve_expressions(arguments, 1, r.rs)
    IN  args(resolver_accept_expr(callee, rs))

\* Expr::accept with the Resolver as visitor
resolver_accept_expr(e, rs) ==
    CASE e.k = "Assign" -> resolver_visit_assign(e, rs)
      [] e.k \in {"UnaryBang", "UnaryMinus"} -> resolver_visit_unary(e.expr, rs)
      [] e.k = "Call" -> resolver_visit_call(e.callee, e.arguments, rs)
      [] e.k = "Identifier" -> resolver_visit_identifier(e.id, rs)
      [] e.k \in {"LiteralString", "LiteralNumber", "False", "True", "Nil"} -> Resolved(rs)
      [] OTHER -> resolver_visit_binary(e.left, e.right, rs)

\* Stmt::accept with the Resolver as visitor: the six arms of stmt.rs
resolver_visit_stmt(s, rs) ==
    CASE s.k \in {"Print", "Expr"} -> resolver_visit_print(s.expr, rs)
      [] s.k = "VarDeclaration" -> resolver_visit_var_declaration(s.name, s.initializer, rs)
      [] s.k = "Block" -> resolver_visit_block(s.stmts, rs)
      [] s.k = "If" -> resolver_visit_if(s.condition, s.then_branch, s.else_branch, rs)
      [] s.k = "While" -> resolver_visit_while(s.condition, s.body, rs)

\* Stmt::accept of the Stmt the specification describes, with the Resolver as
\* visitor: a FunctionDeclaration, which stmt.rs does not declare, goes to the
\* Resolver's visit_function_declaration and every other statement to the six
\* arms
resolver_accept_stmt(s, rs) ==
    IF s.k = "FunctionDeclaration"
    THEN resolver_visit_function_declaration(s.name, s.arguments, s.body, rs)
    ELSE resolver_visit_stmt(s, rs)

\* the map is cleared, the scopes are not
resolve(statements, rs) ==
    resolve_statements(statements, 1, [rs EXCEPT !.interpreter_local_map = <<>>])

(***************************************************************************)
(* The resolver at work: one Resolver, given statement lists one after the *)
(* other.  The reference of each list has the parse-tree id 0.             *)
(***************************************************************************)
\* a = 1;  and  print a;
AssignReference == ExprStmt(ExprAssign(0, "a", LiteralNumber(1)))

ReadReference == PrintStmt(ExprIdentifier(0, "a"))

\* no declaration, var a; or var b;
Declared(choice) == IF choice = "" THEN <<>> ELSE <<VarDeclaration(choice, None)>>

\* <declared 1> { <declared 2> { ... { <reference> } } }: declarations[1]
\* is outside of every block, the reference is Len(declarations) - 1 blocks deep
RECURSIVE Nest(_, _)
Nest(declarations, reference) ==
    IF Len(declarations) = 1
    THEN Declared(declarations[1]) \o <<reference>>
    ELSE Declared(declarations[1]) \o <<Block(Nest(Tail(declarations), reference))>>

NestDeclarations == UNION {[1..n -> {"", "a", "b"}] : n \in 1..(MaxBlocks + 1)}

NestPrograms ==
    {Nest(declarations, reference) :
        declarations \in NestDeclarations, reference \in {AssignReference, ReadReference}}

\* { var c = c; }
OwnInitializerProgram == <<Block(<<VarDeclaration("c", ExprIdentifier(1, "c"))>>)>>

\* a = 1; var a;
LateDeclarationProgram == <<AssignReference, VarDeclaration("a", None)>>

\* fun f(a) { a = 1; }     if (a) while (a) f(a = 1, -a); else print a or !a;
ResolvedPrograms ==
    NestPrograms
    \cup {OwnInitializerProgram, LateDeclarationProgram,
          <<parse_function_declaration("f", <<"a">>, Block(<<AssignReference>>))>>,
          <<If(ExprIdentifier(1, "a"),
               While(ExprIdentifier(2, "a"),
                     ExprStmt(Call(ExprIdentifier(3, "f"),
                                   <<ExprAssign(0, "a", LiteralNumber(1)),
                                     UnaryMinus(ExprIdentifier(4, "a"))>>))),
               PrintStmt(BinaryOr(ExprIdentifier(5, "a"),
                                  UnaryBang(ExprIdentifier(6, "a")))))>>}

\* Resolver::resolve; last keeps the number of scopes the Resolver had when
\* it was called, and what the call before returned when it was given the
\* same statements
Resolve(statements) ==
    /\ Len(scopes) <= MaxLeaked
    /\ \E r \in {resolve(statements, ResolverState(scopes, interpreter_local_map))} :
           /\ scopes' = r.rs.scopes
           /\ interpreter_local_map' = r.rs.interpreter_local_map
           /\ last' = [op |-> "resolve", arg |-> statements, status |-> r.status,
                       msg |-> r.msg, open |-> Len(scopes),
                       map |-> IF r.status = "ok" THEN r.rs.interpreter_local_map ELSE <<>>,
                       before |-> IF last.op = "resolve" /\ last.arg = statements
                                  THEN [status |-> last.status, map |-> last.map]
                                  ELSE [status |-> "none", map |-> <<>>]]
    /\ UNCHANGED <<interpreter_vars, parser_vars, scanner_vars, vm_vars>>

NextResolve == \E statements \in ResolvedPrograms : Resolve(statements)

SpecResolve == Init /\ [][NextResolve]_vars

(***************************************************************************)
(* scanner.rs.  A source is a sequence of characters, each a one-character *)
(* string; NonAsciiChar stands for a character outside ASCII.  The scanner *)
(* threads the rest of the source (char_iterator), the tokens pushed so    *)
(* far and scan_info through its functions.  The tokens carry the names    *)
(* scanner.rs gives them.                                                  *)
(***************************************************************************)
NonAsciiChar == "U+00E9"

DigitOrder == <<"0", "1", "2", "3", "4", "5", "6", "7", "8", "9">>

\* char::is_ascii_digit
is_ascii_digit(c) == \E i \in 1..Len(DigitOrder) : DigitOrder[i] = c

\* the ASCII letters, lower case and upper case
Letters ==
    {"a", "b", "c", "d", "e", "f", "g", "h", "i", "j", "k", "l", "m", "n", "o", "p", "q",
     "r", "s", "t", "u", "v", "w", "x", "y", "z",
     "A", "B", "C", "D", "E", "F", "G", "H", "I", "J", "K", "L", "M", "N", "O", "P", "Q",
     "R", "S", "T", "U", "V", "W", "X", "Y", "Z"}

\* char::is_ascii_alphabetic
is_ascii_alphabetic(c) == c \in Letters

\* char::is_ascii_alphanumeric
is_ascii_alphanumeric(c) == is_ascii_alphabetic(c) \/ is_ascii_digit(c)

\* str::is_ascii
is_ascii(s) == \A i \in 1..Len(s) : s[i] # NonAsciiChar

\* the value of a digit
DigitValue(c) == CHOOSE n \in 0..9 : DigitOrder[n + 1] = c

\* the integer the digits of a buffer spell, its decimal points left out
RECURSIVE Mantissa(_)
Mantissa(buffer) ==
    IF buffer = <<>> THEN 0
    ELSE IF buffer[Len(buffer)] = "." THEN Mantissa(SubSeq(buffer, 1, Len(buffer) - 1))
    ELSE 10 * Mantissa(SubSeq(buffer, 1, Len(buffer) - 1)) + DigitValue(buffer[Len(buffer)])

DecimalPoints(buffer) == Cardinality({i \in 1..Len(buffer) : buffer[i] = "."})

\* the digits after the decimal point of a buffer with one decimal point
FractionDigits(buffer) ==
    IF DecimalPoints(buffer) = 0 THEN 0
    ELSE Len(buffer) - (CHOOSE i \in 1..Len(buffer) : buffer[i] = ".")

\* the number mantissa / 10^exponent, trailing zeros of the fraction removed
RECURSIVE Decimal(_, _)
Decimal(mantissa, exponent) ==
    IF exponent > 0 /\ mantissa % 10 = 0 THEN Decimal(mantissa \div 10, exponent - 1)
    ELSE [mantissa |-> mantissa, exponent |-> exponent]

\* a buffer with one decimal point, the zeros that end its fraction removed
StripFraction(buffer) ==
    IF DecimalPoints(buffer) # 1 THEN buffer
    ELSE SubSeq(buffer, 1, CHOOSE i \in 1..Len(buffer) :
                               /\ buffer[i] # "0"
                               /\ \A j \in (i + 1)..Len(buffer) : buffer[j] = "0")

\* a buffer from its first digit that is not 0 on
Significant(buffer) ==
    IF \A i \in 1..Len(buffer) : buffer[i] \in {"0", "."} THEN <<>>
    ELSE SubSeq(buffer,
                CHOOSE i \in 1..Len(buffer) :
                    /\ buffer[i] \notin {"0", "."}
                    /\ \A j \in 1..(i - 1) : buffer[j] \in {"0", "."},
                Len(buffer))

\* the digits of a buffer from its first digit that is not 0 on
SignificantDigits(buffer) == Len(SelectSeq(Significant(buffer), is_ascii_digit))

\* whether the decimal a buffer spells names its f64: parse rounds the
\* decimal to the nearest f64, which is another number when the decimal has
\* more digits than an f64 holds or lies below the normal range
names_f64(buffer) ==
    /\ SignificantDigits(StripFraction(buffer)) <= MaxDigits
    /\ FractionDigits(StripFraction(buffer)) <= MaxFraction

\* str::parse::<f64> on a buffer of digits and decimal points that starts with
\* a digit: an error when there are two decimal points, else the nearest f64,
\* written as the decimal that names it.  Where rounding gives another number
\* than the decimal, the f64 is outside the model's numbers (bound)
parse_f64(buffer) ==
    IF DecimalPoints(buffer) > 1 THEN [ok |-> FALSE, bound |-> FALSE, n |-> Decimal(0, 0)]
    ELSE IF ~names_f64(buffer) THEN [ok |-> TRUE, bound |-> TRUE, n |-> Decimal(0, 0)]
    ELSE [ok |-> TRUE, bound |-> FALSE,
          n |-> Decimal(Mantissa(Significant(StripFraction(buffer))),
                        FractionDigits(StripFraction(buffer)))]

ScanState(chars, toks, line, line_offset) ==
    [chars |-> chars, tokens |-> toks, line |-> line, line_offset |-> line_offset,
     bound |-> FALSE]

\* tokens.push(token)
push_token(s, token) == [s EXCEPT !.tokens = Append(@, token)]

\* the state after char_iterator.nth(0) returned Some
consume(s) == [s EXCEPT !.chars = Tail(@)]

\* the keyword table of match_identifier
keyword(identifier_buffer) ==
    CASE identifier_buffer = <<"a", "n", "d">> -> Token("And")
      [] identifier_buffer = <<"c", "l", "a", "s", "s">> -> Token("Class")
      [] identifier_buffer = <<"e", "l", "s", "e">> -> Token("Else")
      [] identifier_buffer = <<"f", "a", "l", "s", "e">> -> Token("False")
      [] identifier_buffer = <<"f", "u", "n">> -> Token("Fun")
      [] identifier_buffer = <<"f", "o", "r">> -> Token("For")
      [] identifier_buffer = <<"i", "f">> -> Token("If")
      [] identifier_buffer = <<"n", "i", "l">> -> Token("Nil")
      [] identifier_buffer = <<"o", "r">> -> Token("Or")
      [] identifier_buffer = <<"p", "r", "i", "n", "t">> -> Token("Print")
      [] identifier_buffer = <<"r", "e", "t", "u", "r", "n">> -> Token("Return")
      [] identifier_buffer = <<"s", "u", "p", "e", "r">> -> Token("Super")
      [] identifier_buffer = <<"t", "h", "i", "s">> -> Token("This")
      [] identifier_buffer = <<"t", "r", "u", "e">> -> Token("True")
      [] identifier_buffer = <<"v", "a", "r">> -> Token("Var")
      [] identifier_buffer = <<"w", "h", "i", "l", "e">> -> Token("While")
      [] OTHER -> TokenIdentifier(identifier_buffer)

\* the two places of match_number_literal that parse number_buffer: the number
\* is pushed when it parses and nothing is pushed when it does not; a number
\* outside the model's numbers puts the scan outside the model
push_number(s, number_buffer) ==
    IF ~parse_f64(number_buffer).ok THEN s
    ELSE IF parse_f64(number_buffer).bound THEN [s EXCEPT !.bound = TRUE]
    ELSE push_token(s, NumberLiteral(parse_f64(number_buffer).n))

\* the loop of match_line_comment
RECURSIVE match_line_comment(_)
match_line_comment(s) ==
    IF s.chars = <<>> THEN s
    ELSE IF Head(s.chars) = "\n"
         THEN [consume(s) EXCEPT !.line = @ + 1, !.line_offset = 0]
         ELSE match_line_comment(consume(s))

\* the loop of match_string_literal; at the end of the source the buffer is
\* dropped and nothing is pushed
RECURSIVE string_loop(_, _)
string_loop(str_buffer, s) ==
    IF s.chars = <<>> THEN s
    ELSE IF Head(s.chars) = "\"" THEN push_token(consume(s), StringLiteral(str_buffer))
    ELSE string_loop(Append(str_buffer, Head(s.chars)), consume(s))

match_string_literal(s) == string_loop(<<>>, s)

RECURSIVE match_root(_, _)

\* match_assign, match_less, match_greater: `=` follows, another character
\* follows, or the source ends
match_pair(s, with_equal, alone) ==
    IF s.chars = <<>> THEN push_token(s, alone)
    ELSE IF Head(s.chars) = "=" THEN push_token(consume(s), with_equal)
    ELSE match_root(Head(s.chars), push_token(consume(s), alone))

match_assign(s) == match_pair(s, Token("Equal"), Token("Assign"))

match_less(s) == match_pair(s, Token("LessEqual"), Token("Less"))

match_greater(s) == match_pair(s, Token("GreaterEqual"), Token("Greater"))

match_divide(s) ==
    IF s.chars = <<>> THEN push_token(s, Token("Divide"))
    ELSE IF Head(s.chars) = "/" THEN match_line_comment(consume(s))
    ELSE match_root(Head(s.chars), push_token(consume(s), Token("Divide")))

\* the loop of match_number_literal; a second decimal point is pushed to the
\* buffer like the first
RECURSIVE number_loop(_, _)
number_loop(number_buffer, s) ==
    IF s.chars = <<>> THEN push_number(s, number_buffer)
    ELSE IF is_ascii_digit(Head(s.chars)) \/ Head(s.chars) = "."
         THEN number_loop(Append(number_buffer, Head(s.chars)), consume(s))
         ELSE match_root(Head(s.chars), push_number(consume(s), number_buffer))

match_number_literal(first, s) == number_loop(<<first>>, s)

\* the loop of match_identifier; at the end of the source the function
\* returns without pushing the buffer
RECURSIVE identifier_loop(_, _)
identifier_loop(identifier_buffer, s) ==
    IF s.chars = <<>> THEN s
    ELSE IF is_ascii_alphanumeric(Head(s.chars))
         THEN identifier_loop(Append(identifier_buffer, Head(s.chars)), consume(s))
         ELSE match_root(Head(s.chars), push_token(consume(s), keyword(identifier_buffer)))

match_identifier(first, s) == identifier_loop(<<first>>, s)

match_root(c, s) ==
    CASE c = "+" -> push_token(s, Token("Plus"))
      [] c = "-" -> push_token(s, Token("Minus"))
      [] c = "*" -> push_token(s, Token("Times"))
      [] c = "/" -> match_divide(s)
      [] c = "=" -> match_assign(s)
      [] c = "<" -> match_less(s)
      [] c = ">" -> match_greater(s)
      [] c = "\"" -> match_string_literal(s)
      [] c = "\n" -> [s EXCEPT !.line = @ + 1, !.line_offset = 0]
      [] c = " " -> [s EXCEPT !.line_offset = 0]
      [] is_ascii_digit(c) -> match_number_literal(c, s)
      [] is_ascii_alphabetic(c) -> match_identifier(c, s)
      [] OTHER -> s

\* the loop of scan_tokens
RECURSIVE scan_loop(_)
scan_loop(s) ==
    IF s.chars = <<>> THEN s ELSE scan_loop(match_root(Head(s.chars), consume(s)))

\* Scanner::scan_tokens; a source with a number outside the model's numbers
\* has no outcome in the model (bound)
scan_tokens(src) ==
    LET result(s) ==
            IF s.bound THEN [status |-> "bound", message |-> "", tokens |-> <<>>]
            ELSE [status |-> "ok", message |-> "", tokens |-> Append(s.tokens, Token("Eof"))]
    IN  IF ~is_ascii(src)
        THEN [status |-> "err", message |-> "Source is not ASCII", tokens |-> <<>>]
        ELSE result(scan_loop(ScanState(src, <<>>, 0, 0)))

\* the characters of the scanned sources
ScanAlphabet == {"1", ".", "\"", "a", "=", "/", " ", "\n", NonAsciiChar}

\* every source of up to MaxSource characters of the alphabet
ShortSources == UNION {[1..n -> ScanAlphabet] : n \in 0..MaxSource}

\* 12345678901234567, which no f64 is: the nearest f64 is 12345678901234568
LongNumber ==
    <<"1", "2", "3", "4", "5", "6", "7", "8", "9", "0", "1", "2", "3", "4", "5", "6", "7">>

\* the source of test_scan_tokens, and sources with the other operators,
\* a keyword, longer numbers and upper-case letters
OperatorSources ==
    {<<"+", "-", "*", "/", "=", "*", "-">>, <<"<", "=", ">", "=">>, <<"<", ">", "1">>,
     <<"i", "f", " ", "x", "1", ";">>, <<"1", "0", ".", "5", "0", "+">>,
     <<"1", ".", "5", ".">>, <<"a", "B", " ">>, <<"A", " ">>, <<"1", "E", "5", " ">>,
     <<"I", "f", " ">>, <<"1", ".", "0", "0">>, <<"0", ".", "0", "5", "0">>, LongNumber}

Sources == ShortSources \cup OperatorSources

InitScan ==
    /\ InitInterpreter
    /\ tokens = <<>>
    /\ current = 0
    /\ current_parse_tree_id = 0
    /\ InitResolver
    /\ source \in Sources
    /\ InitVm

\* Scanner::scan_tokens on the scanner's source
Scan ==
    /\ \E r \in {scan_tokens(source)} :
           /\ r.status # "bound"
           /\ last' = [op |-> "scan", status |-> r.status, message |-> r.message,
                    tokens |-> r.tokens]
    /\ UNCHANGED <<interpreter_vars, parser_vars, resolver_vars, scanner_vars, vm_vars>>

NextScan == Scan

SpecScan == InitScan /\ [][NextScan]_vars

(***************************************************************************)
(* Interpreter::execute from its source: the source is scanned, the tokens *)
(* are parsed, and the statements are run.  The tokens reach the parser    *)
(* under the names scanner.rs gives them.  scanner.rs has no arm for       *)
(* ; ( ) { } , and !, so that the parser finds no statement complete: a    *)
(* source that holds a token is a parse error, or a parse that does not    *)
(* return, and only a source of blanks and comments is run, as the empty   *)
(* list of statements.                                                     *)
(***************************************************************************)
\* Interpreter::execute
execute(src, st) ==
    LET run_parsed(parsed) ==
            CASE parsed.status = "ok" -> execute_parsed(parsed.value, st)
              [] parsed.status = "error" -> Err(<<parsed.message>>, st)
              [] OTHER -> [status |-> parsed.status, cell |-> NoCell, msg |-> <<>>, st |-> st]
        parse_scanned(scanned) ==
            IF scanned.status = "err" THEN Err(<<scanned.message>>, st)
            ELSE IF scanned.status = "bound" THEN OutOfBounds(st)
            ELSE run_parsed(parse(Parser(scanned.tokens, 0, 0)))
    IN  parse_scanned(scan_tokens(src))

\* var a = 1; a = a + 1; a;
IncrementSource ==
    <<"v", "a", "r", " ", "a", " ", "=", " ", "1", ";", " ",
      "a", " ", "=", " ", "a", " ", "+", " ", "1", ";", " ", "a", ";">>

\* the sources executed: the scanned sources, and 1 + 1, a = a, - and the
\* source of IncrementProgram
ExecuteSources ==
    Sources
    \cup {<<"1", " ", "+", " ", "1">>, <<"a", " ", "=", " ", "a">>, <<"-">>, IncrementSource}

\* Interpreter::execute; a parse that panicked or overflowed the stack ended
\* the program
Execute(src) ==
    /\ ~blocked
    /\ \E r \in {execute(src, EvalState(Environment.global_variables,
                                        Environment.value_stack, Environment.heap,
                                        MaxSteps))} :
       \E o \in {Outcome(r)} :
           /\ r.status # "bound"
           /\ global_variables' = o.global_variables
           /\ value_stack' = o.value_stack
           /\ heap' = o.heap
           /\ blocked' = (r.status \notin {"ok", "err"})
           /\ last' = [op |-> "execute", arg |-> src, pre |-> Environment,
                       status |-> o.status, cell |-> o.cell, msg |-> o.msg, out |-> o.out,
                       pushes |-> o.pushes, stmts |-> o.stmts, defines |-> o.defines,
                       scope_ok |-> o.scope_ok]
    /\ UNCHANGED <<handles, parser_vars, resolver_vars, scanner_vars, vm_vars>>

NextSource == \E src \in ExecuteSources : Execute(src)

SpecSource == Init /\ [][NextSource]_vars

(***************************************************************************)
(* vm/: the bytecode virtual machine.  A chunk is a sequence of bytes and  *)
(* a sequence of constants, both indexed from 0 by the source and from 1   *)
(* here.  A number is written in halves: VmNumber(3) is Number(1.5).       *)
(*                                                                         *)
(* run is a loop; one pass of the loop is one step of the model, so that   *)
(* the states of the machine inside a run are states of the model.         *)
(***************************************************************************)
DEFAULT_STACK_SIZE == 256

\* VmState.max_stack_size: set by new, never written afterwards
max_stack_size == DEFAULT_STACK_SIZE

\* value::Value::Number
VmNumber(n) == [type |-> "Number", n |-> n]

\* error::RuntimeError
InstructionPointerOutOfBounds(index, len) ==
    [error |-> "InstructionPointerOutOfBounds", index |-> index, len |-> len]

InvalidInstruction(byte) == [error |-> "InvalidInstruction", byte |-> byte]

InvalidConstantIndex(index) == [error |-> "InvalidConstantIndex", index |-> index]

StackUnderflow == [error |-> "StackUnderflow"]

StackOverflowError(size) == [error |-> "StackOverflow", size |-> size]

NoError == [error |-> "none"]

VmOk(value) == [ok |-> TRUE, value |-> value, error |-> NoError]

VmErr(error) == [ok |-> FALSE, value |-> 0, error |-> error]

\* a mutant of the TryFrom of OpCode: the error does not carry the byte
op_code_try_from_zero(value) ==
    CASE value = 0 -> VmOk("Constant")
      [] value = 1 -> VmOk("Return")
      [] value = 2 -> VmOk("Negate")
      [] value = 3 -> VmOk("Add")
      [] value = 4 -> VmOk("Subtract")
      [] value = 5 -> VmOk("Multiply")
      [] value = 6 -> VmOk("Divide")
      [] OTHER -> VmErr(InvalidInstruction(0))

\* impl TryFrom<&u8> for OpCode
op_code_try_from(value) ==
    CASE value = 0 -> VmOk("Constant")
      [] value = 1 -> VmOk("Return")
      [] value = 2 -> VmOk("Negate")
      [] value = 3 -> VmOk("Add")
      [] value = 4 -> VmOk("Subtract")
      [] value = 5 -> VmOk("Multiply")
      [] value = 6 -> VmOk("Divide")
      [] OTHER -> VmErr(InvalidInstruction(value))

\* opcodes::try_from_with_offset: the opcode and the length of its instruction
try_from_with_offset(byte) ==
    IF ~op_code_try_from(byte).ok THEN op_code_try_from(byte)
    ELSE VmOk([op_code |-> op_code_try_from(byte).value,
               offset |-> IF op_code_try_from(byte).value = "Constant" THEN 2 ELSE 1])

\* Chunk::get_byte
get_byte(c, index) ==
    IF index < Len(c.code) THEN VmOk(c.code[index + 1])
    ELSE VmErr(InstructionPointerOutOfBounds(index, Len(c.code)))

\* Chunk::get_constant; the error carries the index as a u8
get_constant(c, index) ==
    IF index < Len(c.constants) THEN VmOk(c.constants[index + 1])
    ELSE VmErr(InvalidConstantIndex(index % 256))

\* a mutant of stack_push: the size of the stack is not looked at
stack_push_unchecked(stk, value) == VmOk(Append(stk, value))

\* VirtualMachineImpl::stack_push; the value of the result is the stack
stack_push(stk, value) ==
    IF Len(stk) >= max_stack_size THEN VmErr(StackOverflowError(max_stack_size))
    ELSE VmOk(Append(stk, value))

\* VirtualMachineImpl::stack_pop: the value popped, or StackUnderflow
stack_pop(stk) ==
    IF stk = <<>> THEN VmErr(StackUnderflow) ELSE VmOk(stk[Len(stk)])

\* what one pass of the loop of run leaves: the machine, and whether the loop
\* goes on ("continue"), run returned Ok ("ok") or an error ("err"), or the
\* pass met an opcode the match of run has no arm for ("no_arm")
Pass(ip, stk, status, error, return_value) ==
    [instruction_pointer |-> ip, stack |-> stk, status |-> status, error |-> error,
     return_value |-> return_value]

NoValue == [type |-> "none"]

\* disassembler::dissasemble_instruction, which run calls when tracing: the
\* text it returns is printed and is left out, its error ends the run.  Like
\* run it has arms for Return and Constant only.
dissasemble_instruction(c, ip) ==
    LET traced(status, error) == [status |-> status, error |-> error]
        load(constant_index) ==
            IF ~constant_index.ok THEN traced("err", constant_index.error)
            ELSE IF ~get_constant(c, constant_index.value).ok
                 THEN traced("err", get_constant(c, constant_index.value).error)
                 ELSE traced("ok", NoError)
        text(decoded) ==
            IF ~decoded.ok THEN traced("err", decoded.error)
            ELSE IF decoded.value.op_code = "Return" THEN traced("ok", NoError)
            ELSE IF decoded.value.op_code = "Constant" THEN load(get_byte(c, ip + 1))
            ELSE traced("no_arm", NoError)
    IN  IF ip >= Len(c.code)
        THEN traced("err", InstructionPointerOutOfBounds(ip, Len(c.code)))
        ELSE text(try_from_with_offset(c.code[ip + 1]))

\* the Return arm of run: the instruction pointer moves on before the pop
run_return(ip, stk, offset) ==
    IF ~stack_pop(stk).ok THEN Pass(ip + offset, stk, "err", stack_pop(stk).error, NoValue)
    ELSE Pass(ip + offset, SubSeq(stk, 1, Len(stk) - 1), "ok", NoError, stack_pop(stk).value)

\* the Constant arm of run: the instruction pointer moves on after the push
run_constant(c, ip, stk, offset) ==
    LET push(pushed) ==
            IF ~pushed.ok THEN Pass(ip, stk, "err", pushed.error, NoValue)
            ELSE Pass(ip + offset, pushed.value, "continue", NoError, NoValue)
        load(constant) ==
            IF ~constant.ok THEN Pass(ip, stk, "err", constant.error, NoValue)
            ELSE push(stack_push(stk, constant.value))
        index(constant_index) ==
            IF ~constant_index.ok THEN Pass(ip, stk, "err", constant_index.error, NoValue)
            ELSE load(get_constant(c, constant_index.value))
    IN  index(get_byte(c, ip + 1))

\* one pass of the loop of run: the fetch, the decoding and the match.  run
\* has arms for Return and Constant; the source gives it nothing to do for
\* Negate, Add, Subtract, Multiply and Divide, and the run stops there.
run_pass(c, ip, stk, tr) ==
    LET execute_op(decoded) ==
            IF ~decoded.ok THEN Pass(ip, stk, "err", decoded.error, NoValue)
            ELSE IF decoded.value.op_code = "Return" THEN run_return(ip, stk, decoded.value.offset)
            ELSE IF decoded.value.op_code = "Constant"
                 THEN run_constant(c, ip, stk, decoded.value.offset)
            ELSE Pass(ip, stk, "no_arm", NoError, NoValue)
    IN  IF tr /\ dissasemble_instruction(c, ip).status # "ok"
        THEN Pass(ip, stk, dissasemble_instruction(c, ip).status,
                  dissasemble_instruction(c, ip).error, NoValue)
        ELSE IF ip >= Len(c.code)
        THEN Pass(ip, stk, "err", InstructionPointerOutOfBounds(ip, Len(c.code)), NoValue)
        ELSE execute_op(try_from_with_offset(c.code[ip + 1]))

\* the loop of run, from a machine inside the loop to the end of the run
RECURSIVE run_loop(_, _, _, _)
run_loop(c, ip, stk, tr) ==
    LET next(pass) ==
            IF pass.status = "continue"
            THEN run_loop(c, pass.instruction_pointer, pass.stack, tr)
            ELSE pass
    IN  next(run_pass(c, ip, stk, tr))

\* VirtualMachine::run on a machine whose stack is stk: the instruction
\* pointer is set to 0 and the stack is left as it is
run(c, stk, tr) == run_loop(c, 0, stk, tr)

\* the bytes of the model's chunks: CONSTANT (and constant index 0), RETURN
\* (and index 1), ADD, and a byte that is no opcode and no index
VmBytes == {0, 1, 3, 255}

Constants == <<VmNumber(3), VmNumber(5)>>

\* every chunk of up to MaxCode bytes of the alphabet over the two constants
ShortChunks ==
    UNION {{Chunk(code, Constants) : code \in [1..n -> VmBytes]} : n \in 0..MaxCode}

\* the chunk of test_run_valid_chunk
ReturnChunk == Chunk(<<1>>, <<>>)

\* [CONSTANT 0, CONSTANT 1, ADD, RETURN] over [1.5, 2.5]
AddChunk == Chunk(<<0, 0, 0, 1, 3, 1>>, Constants)

\* [CONSTANT 0, CONSTANT 1, SUBTRACT, RETURN] over [1.5, 2.5]
SubtractChunk == Chunk(<<0, 0, 0, 1, 4, 1>>, Constants)

\* [CONSTANT 0, CONSTANT 1, RETURN], the code of test_chunk_with_constants
TwoConstantsChunk == Chunk(<<0, 0, 0, 1, 1>>, Constants)

\* the first bytes that are no opcode, and the opcodes the alphabet leaves out
OneByteChunks == {Chunk(<<byte>>, Constants) : byte \in {2, 4, 5, 6, 7, 8}}

\* CONSTANT 0 once more than the stack can hold
FillChunk == Chunk([i \in 1..(2 * (max_stack_size + 1)) |-> 0], <<VmNumber(3)>>)

Chunks ==
    ShortChunks \cup OneByteChunks
    \cup {ReturnChunk, AddChunk, SubtractChunk, TwoConstantsChunk, FillChunk}

\* a VirtualMachineImpl::new, whose tracing field the caller has set or not
InitVmRun ==
    /\ InitInterpreter
    /\ tokens = <<>>
    /\ current = 0
    /\ current_parse_tree_id = 0
    /\ InitResolver
    /\ InitScanner
    /\ chunk = Chunk(<<>>, <<>>)
    /\ instruction_pointer = 0
    /\ vm_stack = <<>>
    /\ tracing \in BOOLEAN
    /\ running = FALSE

\* the start of VirtualMachine::run(c): the instruction pointer is reset
VmRun(c) ==
    /\ ~running
    /\ Len(vm_stack) <= MaxLeft
    /\ chunk' = c
    /\ instruction_pointer' = 0
    /\ running' = TRUE
    /\ last' = [op |-> "run", status |-> "continue", passes |-> 0,
                fresh |-> last.op = "new", started_with |-> vm_stack,
                error |-> NoError, return_value |-> NoValue,
                pre_ip |-> instruction_pointer, pre_stack |-> vm_stack]
    /\ UNCHANGED <<interpreter_vars, parser_vars, resolver_vars, scanner_vars,
                   vm_stack, tracing>>

\* one pass of the loop of run; the pass that ends the loop ends the run
VmPass ==
    /\ running
    /\ \E pass \in {run_pass(chunk, instruction_pointer, vm_stack, tracing)} :
           /\ instruction_pointer' = pass.instruction_pointer
           /\ vm_stack' = pass.stack
           /\ running' = (pass.status = "continue")
           /\ last' = [last EXCEPT !.status = pass.status, !.passes = @ + 1,
                                   !.error = pass.error,
                                   !.return_value = pass.return_value,
                                   !.pre_ip = instruction_pointer,
                                   !.pre_stack = vm_stack]
    /\ UNCHANGED <<interpreter_vars, parser_vars, resolver_vars, scanner_vars,
                   chunk, tracing>>

NextVm == VmPass \/ \E c \in Chunks : VmRun(c)

SpecVm == InitVmRun /\ [][NextVm]_vars

(***************************************************************************)
(* The properties.  After Execute, last holds the program, the environment *)
(* it started in (pre) and what the run did; the variables hold the        *)
(* environment it left and the cell it returned.                           *)
(***************************************************************************)
Executed == last.op = "execute"

\* the value execute returned
Result == heap[last.cell]

\* whether name was a global when the run started, and its value then
Bound(name) == name \in DOMAIN last.pre.global_variables

PreValue(name) == last.pre.heap[last.pre.global_variables[name]]

\* the state the run started in
PreState ==
    EvalState(last.pre.global_variables, last.pre.value_stack, last.pre.heap, MaxSteps)

\* C1: when the evaluation of a statement finishes, with a value or with an
\* error, the frame stack is as deep as when it started; this holds of the
\* program's statements and of every statement nested in them
C1_ScopeBalance ==
    Executed /\ last.status \in {"ok", "err"}
        => last.scope_ok /\ Len(value_stack) = Len(last.pre.value_stack)

\* an error raised two frames deep, in a nested block or a call's body
C1_ErrorInNestedScope ==
    Executed /\ last.status = "err" /\ last.pushes >= 2 /\ Len(value_stack) = 0

\* C2: get(name) returns the cell of the innermost frame that defines name,
\* the global's cell when no frame defines it, and None only when neither a
\* frame nor the globals define it
C2_GetSearchesOutward ==
    last.op = "get" => last.cell = get_variable_chain(EnvState, last.name)

\* C3: in a call f(2, 3) of fun f(x, y), a read of x + y in the body yields 5
\* and a read of y yields 3, and the call does not fail
C3_ParametersBound ==
    /\ Executed /\ last.arg = ParameterProgram(BinaryAdd(Identifier("x"), Identifier("y")))
        => last.status = "ok" /\ last.out = <<NatToString(5)>>
    /\ Executed /\ last.arg = ParameterProgram(Identifier("y"))
        => last.status = "ok" /\ last.out = <<NatToString(3)>>

\* two handles got from the same binding: the same name found in the same
\* frame (or in the globals), that frame still alive
SameBinding(g, h) == g.name = h.name /\ g.level = h.level /\ g.alive /\ h.alive

\* the cell the environment binds h.name to in the frame h came from
BindingCell(h) ==
    IF h.level = Globals THEN global_variables[h.name] ELSE value_stack[h.level][h.name]

\* C4 as stated: any two gets of a name made while its frame is alive return
\* handles to the same cell
C4_GetsShareCell ==
    \A i, j \in DOMAIN handles :
        SameBinding(handles[i], handles[j]) => handles[i].cell = handles[j].cell

\* C4 as amended: gets of a name made while its frame is alive and with no
\* define of that name in that frame since the first of them return handles to
\* the binding's own cell, so a value written through one handle is the value
\* read through the other and through the environment
C4_GetsShareCellUntilRedefined ==
    \A i, j \in DOMAIN handles : \A g \in {handles[i]}, h \in {handles[j]} :
        SameBinding(g, h) /\ g.current /\ h.current
            => /\ g.cell = h.cell
               /\ g.cell = BindingCell(g)
               /\ last.op = "write" /\ last.cell = g.cell
                    => /\ Read(EnvState, h.cell) = last.value
                       /\ get_level(EnvState, g.name) = g.level
                            => Read(EnvState, get_handle(EnvState, g.name).cell) = last.value

\* a write through a handle to a binding in a frame, while the caller holds
\* another handle got from the same binding with no define between the two:
\* the value written is read through the other handle and through the binding
C4_WriteThroughHandle ==
    /\ last.op = "write"
    /\ \E i, j \in DOMAIN handles : \E g \in {handles[i]}, h \in {handles[j]} :
          /\ g.current /\ g.alive /\ g.level # Globals /\ last.cell = g.cell
          /\ i # j /\ SameBinding(g, h) /\ h.current
          /\ Read(EnvState, h.cell) = last.value
          /\ Read(EnvState, BindingCell(g)) = last.value

\* C5: running the source var a = 1; a = a + 1; a; through the entry point,
\* Interpreter::execute, returns Number(2.0), the value of its final
\* expression statement
C5_FinalValueReturned ==
    Executed /\ last.arg = IncrementSource
        => last.status = "ok" /\ Result = Number(2)

\* fun f() { print 1; 1; } as declared
ConstantFunction == Callable(FunctionImpl("f", <<>>, DeclareConstantFunction[1].body))

\* the run was f(); with f bound to the function of DeclareConstantFunction
CalledConstantFunction ==
    /\ Executed /\ last.arg = CallProgram("f", <<>>)
    /\ Bound("f") /\ PreValue("f") = ConstantFunction

\* C6 as stated: a call yields the value of the last statement its body ran:
\* f(); with fun f() { print 1; 1; } yields 1
C6_CallYieldsLastValue ==
    CalledConstantFunction => last.status = "ok" /\ Result = Number(1)

\* C6 as amended: a call that returns yields Nil whatever its body ran, the body
\* being a block: f(); with fun f() { print 1; 1; } prints 1 and yields Nil
C6_CallYieldsNil ==
    /\ CalledConstantFunction
        => last.status = "ok" /\ last.out = <<NatToString(1)>> /\ Result = Nil
    /\ \A args \in ArgumentLists :
          Executed /\ last.arg = CallProgram("f", args) /\ last.status = "ok" => Result = Nil

C6_BodyRan ==
    CalledConstantFunction /\ last.stmts > 1 /\ last.out = <<NatToString(1)>>

\* the run was f(args); with f bound to a function of another arity
ArityMismatch(args) ==
    /\ Executed /\ last.arg = CallProgram("f", args)
    /\ Bound("f") /\ PreValue("f").t = "Callable"
    /\ get_arg_count(PreValue("f").f) # Len(args)

\* C7: a call whose number of arguments differs from the callee's arity returns
\* an error, having pushed no frame, bound no parameter and run no statement of
\* the body (nor printed anything)
C7_ArityMismatchFails ==
    \A args \in ArgumentLists :
        ArityMismatch(args)
            => /\ last.status = "err"
               /\ last.pushes = 0
               /\ last.defines = 0
               /\ last.stmts = 1
               /\ last.out = <<>>

\* f(2, 3); with a function f of no parameters, and f(); with f of two
C7_MismatchedCalls ==
    /\ \/ ArityMismatch(<<LiteralNumber(2), LiteralNumber(3)>>)
       \/ ArityMismatch(<<>>) /\ get_arg_count(PreValue("f").f) = 2
    /\ last.status = "err"
    /\ last.msg[1] = "Expected arguments"

\* only Nil and Boolean(false) are falsy
LoxFalsy(v) == v = Nil \/ v = Boolean(FALSE)

\* If, While, Or and And on a variable a take the branch of a falsy value or
\* that of a truthy one: if (a) print 1; else print 2; /
\* while (a) { print 1; a = nil; } / a or 7; / a and 7;
BranchTaken(falsy) ==
    /\ last.arg = IfProgram(Identifier("a"))
        => last.out = <<IF falsy THEN NatToString(2) ELSE NatToString(1)>>
    /\ last.arg = WhileProgram(Identifier("a"))
        => last.out = IF falsy THEN <<>> ELSE <<NatToString(1)>>
    /\ last.arg = OrProgram(Identifier("a"), LiteralNumber(7))
        => Result = IF falsy THEN Number(7) ELSE PreValue("a")
    /\ last.arg = AndProgram(Identifier("a"), LiteralNumber(7))
        => Result = IF falsy THEN PreValue("a") ELSE Number(7)

\* C8: only Nil and Boolean(false) are falsy and every other value is truthy,
\* and If, While, Or and And branch by that rule
C8_OnlyNilAndFalseFalsy ==
    Executed /\ Bound("a") => BranchTaken(LoxFalsy(PreValue("a")))

\* the run ended as the evaluation r does: the same result, output and
\* environment, with as many frames pushed and names defined
SameOutcome(r) ==
    \E o \in {Outcome(r)} :
        /\ last.status = o.status
        /\ last.msg = o.msg
        /\ last.cell = o.cell
        /\ heap = o.heap
        /\ global_variables = o.global_variables
        /\ last.out = o.out
        /\ last.pushes = o.pushes
        /\ last.defines = o.defines

\* whether the operator's left operand, once evaluated, decides the result
LeftDecides(op, value) == IF op = "or" THEN is_truthy(value) ELSE ~is_truthy(value)

\* the run of <left> op <right>; ended as the evaluation of left alone when
\* left fails or decides, and else as that of left followed by right
ShortCircuit(op, left, right) ==
    \E a \in {accept_expr(left, PreState)} :
        IF ~IsOk(a) \/ LeftDecides(op, Read(a.st, a.cell))
        THEN SameOutcome(a)
        ELSE SameOutcome(accept_expr(right, a.st))

C10_ShadowAndRestore ==
    /\ Executed /\ last.arg = ShadowProgram("a", LiteralString(Outer), LiteralString(Inner))
        => /\ last.status = "ok"
           /\ last.out = <<Inner, Outer>>
           /\ heap[global_variables["a"]] = String(Outer)
    /\ Executed /\ last.arg = ShadowProgram("b", LiteralNumber(1), LiteralNumber(2))
        => /\ last.status = "ok"
           /\ last.out = <<NatToString(2), NatToString(1)>>
           /\ heap[global_variables["b"]] = Number(1)

\* the program ran where a was bound already, to something else than "outer"
C10_ShadowRan ==
    /\ Executed /\ last.arg = ShadowProgram("a", LiteralString(Outer), LiteralString(Inner))
    /\ Bound("a") /\ PreValue("a") # String(Outer)
    /\ last.out = <<Inner, Outer>>

\* C11: an assignment to a name that has no binding fails with "Undefined
\* variable" and leaves the environment as it was: no name is bound, no frame
\* is left behind and no cell is written, the right side is not evaluated
C11_UnboundAssignFails ==
    \A name \in AssignedNames, right \in AssignedValues :
        Executed /\ last.arg = AssignProgram(name, right) /\ ~Bound(name)
            => /\ last.status = "err"
               /\ last.msg = <<"Undefined variable", name>>
               /\ global_variables = last.pre.global_variables
               /\ value_stack = last.pre.value_stack
               /\ heap = last.pre.heap
               /\ last.defines = 0

\* x = (a = 2); failed where a was bound to 1, and a still holds 1
C11_UnboundAssignRan ==
    /\ Executed /\ last.arg = AssignProgram("x", Assign("a", LiteralNumber(2)))
    /\ Bound("a") /\ PreValue("a") = Number(1)
    /\ last.status = "err"
    /\ heap[global_variables["a"]] = Number(1)

\* the value of an operand that evaluated
ValueOf(r) == Read(r.st, r.cell)

\* the types whose display form the claim has a string concatenated with
Displayed == {"String", "Number", "Boolean", "Nil"}

\* what the claim says of l + r
ClaimedAdd(l, r) ==
    /\ \/ l.t = "String" /\ r.t \in Displayed
       \/ r.t = "String" /\ l.t \in Displayed
       => last.status = "ok" /\ Result = String(value_fmt(l) \o value_fmt(r))
    /\ last.status = "err" => l.t # "String" /\ r.t # "String" /\ ~BothOf(l, r, "Number")

\* what holds of l + r: a string concatenates with a string or a number only
ConcatenatesOrFails(l, r) ==
    IF BothOf(l, r, "Number")
    THEN last.status = "ok" /\ Result.t = "Number" /\ Result.n = l.n + r.n
    ELSE IF {l.t, r.t} \subseteq {"String", "Number"}
         THEN last.status = "ok" /\ Result = String(value_fmt(l) \o value_fmt(r))
         ELSE /\ last.status = "err"
              /\ last.msg = <<"Addition can only be applied to operands both numbers or both strings">>

\* C12 as claimed: Add with a String on either side yields the display form of
\* the left operand followed by that of the right one, the other operand being
\* a Number, a Boolean or Nil; Add fails only when neither operand is a String
\* and they are not both Numbers
C12_StringAddConcatenates ==
    \A l \in Terms, r \in Terms :
        Executed /\ last.arg = AddProgram(l, r)
            => \E a \in {accept_expr(l, PreState)}, b \in {accept_expr(r, PreState)} :
                   IsOk(a) /\ IsOk(b) => ClaimedAdd(ValueOf(a), ValueOf(b))

\* C12 as the code has it: Add of two Numbers is their sum; Add of two Strings,
\* or of a String and a Number on either side, is the String of the two display
\* forms, left then right; Add of any other pair, a String with a Boolean, Nil
\* or a Callable included, fails
C12_StringAddsStringOrNumber ==
    \A l \in Terms, r \in Terms :
        Executed /\ last.arg = AddProgram(l, r)
            => \E a \in {accept_expr(l, PreState)}, b \in {accept_expr(r, PreState)} :
                   IsOk(a) /\ IsOk(b) => ConcatenatesOrFails(ValueOf(a), ValueOf(b))

\* a + "hi"; with a holding 1 gave "1hi", and "hi" + true; failed
C12_NumberJoinedBooleanRefused ==
    \/ /\ Executed /\ last.arg = AddProgram(Identifier("a"), LiteralString(<<"h", "i">>))
       /\ Bound("a") /\ PreValue("a") = Number(1)
       /\ last.status = "ok" /\ Result = String(<<"1", "h", "i">>)
    \/ /\ Executed /\ last.arg = AddProgram(LiteralString(<<"h", "i">>), True)
       /\ last.status = "err"

\* what the claim says of l == r and l != r: a Boolean, never an error; true
\* for == exactly when the operands have the same type and the same content
StructuralEquality(l, r) ==
    /\ last.arg \in {EqualProgram(x, y) : x \in Terms, y \in Terms}
        => last.status = "ok" /\ Result = Boolean(l = r)
    /\ last.arg \in {NotEqualProgram(x, y) : x \in Terms, y \in Terms}
        => last.status = "ok" /\ Result = Boolean(l # r)

\* C13: for every pair of values, Equal and NotEqual yield a Boolean and never
\* an error; values of different types are unequal, Nil equals Nil, values of
\* the same type are equal when their contents are, and NotEqual yields the
\* negation of Equal
C13_EqualityIsStructural ==
    \A l \in Terms, r \in Terms :
        Executed /\ last.arg \in {EqualProgram(l, r), NotEqualProgram(l, r)}
            => \E a \in {accept_expr(l, PreState)}, b \in {accept_expr(r, PreState)} :
                   IsOk(a) /\ IsOk(b) => StructuralEquality(ValueOf(a), ValueOf(b))

\* parse was called on a new Parser
FirstParse == last.op = "parse" /\ last.from = 0

\* C14: parse returns, with the statements or with a ParseError, for every
\* token vector, those that end after a unary - or ! included
C14_ParserTerminates == FirstParse => last.status \in {"ok", "error"}

\* the parse-tree ids a short statement can hold
Ids == 0..5

\* C15: a = b = c ; parses to Assign(a, Assign(b, c)), and an assignment whose
\* left side is not an Identifier is a ParseError
C15_AssignmentRightAssociative ==
    /\ FirstParse /\ tokens = AssignChain
        => /\ last.status = "ok"
           /\ \E i, j, k \in Ids :
                  last.statements =
                      <<ExprStmt(ExprAssign(i, "a", ExprAssign(j, "b", ExprIdentifier(k, "c"))))>>
    /\ FirstParse /\ tokens = <<NumberLiteral(1), Token("Equal"), NumberLiteral(1),
                                Token("Semicolon")>>
        => last.status = "error" /\ last.message = "Invalid assignment target."

\* C16: f ( ) ( ) ; parses to Call(Call(f, []), []), and f ( 1 ) ( a , 2 ) ;
\* to Call(Call(f, [1]), [a, 2])
C16_ChainedCallsParse ==
    /\ FirstParse /\ tokens = CallChain
        => /\ last.status = "ok"
           /\ \E i \in Ids :
                  last.statements = <<ExprStmt(Call(Call(ExprIdentifier(i, "f"), <<>>), <<>>))>>
    /\ FirstParse /\ tokens = ArgumentCallChain
        => /\ last.status = "ok"
           /\ \E i, j \in Ids :
                  last.statements =
                      <<ExprStmt(Call(Call(ExprIdentifier(i, "f"), <<LiteralNumber(1)>>),
                                      <<ExprIdentifier(j, "a"), LiteralNumber(2)>>))>>

\* the grammar's level of each binary operator, in the order of BinaryOperators:
\* or, and, equality, comparison, additive, multiplicative
Level == <<1, 2, 3, 3, 4, 4, 4, 4, 5, 5, 6, 6>>

\* the node of each binary operator, in the order of BinaryOperators
Node(i, left, right) ==
    Binary(<<"BinaryOr", "BinaryAnd", "BinaryEqual", "BinaryNotEqual", "BinaryLess",
             "BinaryLessEqual", "BinaryGreater", "BinaryGreaterEqual", "BinaryAdd",
             "BinarySub", "BinaryMul", "BinaryDiv">>[i], left, right)

\* C17: in 1 <p> 2 <q> 3 ; the operator q takes 2 and 3 when its level is
\* higher than that of p, and else p takes 1 and 2 and q takes the result and
\* 3: a higher operator binds tighter and operators of one level nest to the
\* left; in - 1 <p> 2 ; the unary minus wraps the 1 alone
C17_PrecedenceAndLeftAssociativity ==
    \A i, j \in 1..Len(BinaryOperators) :
        /\ FirstParse /\ tokens = OperatorChain(BinaryOperators[i], BinaryOperators[j])
            => /\ last.status = "ok"
               /\ last.statements =
                      <<ExprStmt(IF Level[j] > Level[i]
                                 THEN Node(i, LiteralNumber(1),
                                           Node(j, LiteralNumber(2), LiteralNumber(3)))
                                 ELSE Node(j, Node(i, LiteralNumber(1), LiteralNumber(2)),
                                           LiteralNumber(3)))>>
        /\ FirstParse /\ tokens = UnaryChain(BinaryOperators[i])
            => /\ last.status = "ok"
               /\ last.statements =
                      <<ExprStmt(Node(i, UnaryMinus(LiteralNumber(1)), LiteralNumber(2)))>>

\* 1 - 2 - 3 ; was parsed to Sub(Sub(1, 2), 3)
C17_SubtractionChainParsed ==
    /\ FirstParse /\ tokens = OperatorChain(Token("Minus"), Token("Minus"))
    /\ last.statements =
           <<ExprStmt(BinarySub(BinarySub(LiteralNumber(1), LiteralNumber(2)),
                                LiteralNumber(3)))>>

\* the statements of the last resolve are Nest(declarations, reference), the
\* Resolver had no scope when it was called, and the call returned a map
ResolvedNest(declarations, reference) ==
    /\ last.op = "resolve"
    /\ last.open = 0
    /\ last.status = "ok"
    /\ last.arg = Nest(declarations, reference)

\* the blocks that declare a, numbered from 1, the outermost: block j holds
\* declarations[j + 1]
DeclaringBlocks(declarations) ==
    {j \in 1..(Len(declarations) - 1) : declarations[j + 1] = "a"}

\* the number of scopes between the reference, in the innermost block, and
\* the nearest block that declares a
Hops(declarations) ==
    (Len(declarations) - 1)
        - (CHOOSE j \in DeclaringBlocks(declarations) :
               \A i \in DeclaringBlocks(declarations) : i <= j)

\* C18: the value recorded for a reference to a name that an enclosing block
\* declares is the hop count from the innermost scope to the nearest scope
\* that declares the name: 0 for the innermost scope, increasing outward.
C18_DistanceIsHopCount ==
    \A declarations \in NestDeclarations, reference \in {AssignReference, ReadReference} :
        ( /\ ResolvedNest(declarations, reference)
          /\ DeclaringBlocks(declarations) # {}
          /\ 0 \in DOMAIN last.map )
            => last.map[0] = Hops(declarations)

\* C19: after a successful resolve the map has an entry for the read or the
\* assignment exactly when an enclosing block declares its name.
C19_EveryLocalReferenceRecorded ==
    \A declarations \in NestDeclarations, reference \in {AssignReference, ReadReference} :
        ResolvedNest(declarations, reference)
            => (0 \in DOMAIN last.map <=> DeclaringBlocks(declarations) # {})

\* C20: two resolves in a row of the same statements by the same Resolver
\* return equal maps.
C20_ResolveIdempotent ==
    (last.op = "resolve" /\ last.before.status = "ok")
        => (last.status = "ok" /\ last.map = last.before.map)

(* C28: the interpreter never asks for the write lock of a cell while it     *)
(* holds a read guard on that cell: no execute is left blocked, `a = a;`     *)
(* with a bound and an assignment to a function's own name inside its body   *)
(* included.                                                                 *)
C28_NoSelfDeadlock == Executed => last.status # "hang"

(* C30: whenever resolve returns, with a map or with an error, the scope     *)
(* stack of the Resolver is empty again.                                     *)
C30_ScopesEmptyAfterResolve == last.op = "resolve" => scopes = <<>>

\* the parse-tree ids of the Identifier and Assign nodes of a syntax tree
\* (ParseTreeIds) and of a list of trees (ParseTreeIdsOfAll), in tree order
RECURSIVE ParseTreeIds(_), ParseTreeIdsOfAll(_)
ParseTreeIdsOfAll(s) ==
    IF s = <<>> THEN <<>> ELSE ParseTreeIds(Head(s)) \o ParseTreeIdsOfAll(Tail(s))

ParseTreeIds(n) ==
    CASE n.k = "Identifier" -> <<n.parse_tree_id>>
      [] n.k = "Assign" -> <<n.parse_tree_id>> \o ParseTreeIds(n.right)
      [] n.k \in {"UnaryBang", "UnaryMinus", "Print", "Expr"} -> ParseTreeIds(n.expr)
      [] n.k = "Call" -> ParseTreeIds(n.callee) \o ParseTreeIdsOfAll(n.arguments)
      [] n.k = "VarDeclaration" -> ParseTreeIds(n.initializer)
      [] n.k = "Block" -> ParseTreeIdsOfAll(n.stmts)
      [] n.k = "If" -> ParseTreeIds(n.condition) \o ParseTreeIds(n.then_branch)
                       \o ParseTreeIds(n.else_branch)
      [] n.k = "While" -> ParseTreeIds(n.condition) \o ParseTreeIds(n.body)
      [] n.k = "FunctionDeclaration" -> ParseTreeIds(n.body)
      [] n.k \in {"None", "Nil", "True", "False", "LiteralNumber", "LiteralString"} -> <<>>
      [] OTHER -> ParseTreeIds(n.left) \o ParseTreeIds(n.right)

ParsedOk == last.op = "parse" /\ last.status = "ok"

(* C27: within one parse all Identifier and Assign nodes of the returned     *)
(* syntax tree carry pairwise distinct parse-tree ids, taken from the        *)
(* counter, which only grows: every id lies between the counter's value      *)
(* before the parse and its value after it.                                  *)
C27_ParseTreeIdsUnique ==
    ParsedOk =>
        \E ids \in {ParseTreeIdsOfAll(last.statements)} :
            /\ \A i, j \in 1..Len(ids) : i # j => ids[i] # ids[j]
            /\ \A i \in 1..Len(ids) :
                   last.first_id <= ids[i] /\ ids[i] < current_parse_tree_id

\* a parse returned a tree with an Assign node and an Identifier node in it
C27_SeveralIdsParsed ==
    /\ ParsedOk
    /\ \E ids \in {ParseTreeIdsOfAll(last.statements)} : Len(ids) >= 2
    /\ \E i \in 1..Len(last.statements) :
           /\ last.statements[i].k = "Expr"
           /\ last.statements[i].expr.k = "Assign"
           /\ last.statements[i].expr.right.k = "Identifier"

Scanned == last.op = "scan"

\* the source has a string literal that is never closed: an odd number of
\* quotes, in a source that has no comment
UnterminatedString ==
    /\ is_ascii(source)
    /\ \A i \in 1..Len(source) : source[i] # "/"
    /\ Cardinality({i \in 1..Len(source) : source[i] = "\""}) % 2 = 1

\* the source has a number literal with two decimal points: outside strings
\* and comments, a run of digits and decimal points that starts a lexeme with
\* a digit and holds two decimal points
TwoDecimalPoints ==
    /\ is_ascii(source)
    /\ \A i \in 1..Len(source) : source[i] \notin {"/", "\""}
    /\ \E i, j, k \in 1..Len(source) :
           /\ i < j /\ j < k
           /\ is_ascii_digit(source[i])
           /\ i > 1 => ~is_ascii_alphanumeric(source[i - 1])
           /\ source[j] = "." /\ source[k] = "."
           /\ \A m \in i..k : is_ascii_digit(source[m]) \/ source[m] = "."

(* C21: scan_tokens returns an error, and no token vector, when the source   *)
(* holds a character outside ASCII, a string literal that is never closed or *)
(* a number literal with two decimal points.                                 *)
C21_MalformedSourceIsError ==
    Scanned /\ (~is_ascii(source) \/ UnterminatedString \/ TwoDecimalPoints)
        => last.status = "err"

\* a run has ended
RunEnded == last.op = "run" /\ last.passes > 0 /\ ~running

\* a run has reset the instruction pointer and has not entered its loop
RunStarted == last.op = "run" /\ last.passes = 0

\* the last pass of the loop fetched the byte at last.pre_ip
Fetched == last.op = "run" /\ last.passes > 0 /\ last.pre_ip < Len(chunk.code)

FetchedByte == chunk.code[last.pre_ip + 1]

(* C22: a binary arithmetic opcode pops the right operand b, then the left   *)
(* operand a, and pushes a op b; [CONSTANT 0, CONSTANT 1, ADD, RETURN] over  *)
(* [1.5, 2.5] returns Number(4.0) and with SUBTRACT the run returns          *)
(* constants[0] - constants[1].                                              *)
C22_ArithmeticOnStack ==
    /\ Fetched /\ FetchedByte = 3 /\ Len(last.pre_stack) >= 2 =>
           vm_stack = Append(SubSeq(last.pre_stack, 1, Len(last.pre_stack) - 2),
                             VmNumber(last.pre_stack[Len(last.pre_stack) - 1].n
                                      + last.pre_stack[Len(last.pre_stack)].n))
    /\ RunEnded /\ last.started_with = <<>> /\ chunk = AddChunk =>
           last.status = "ok" /\ last.return_value = VmNumber(8)
    /\ RunEnded /\ last.started_with = <<>> /\ chunk = SubtractChunk =>
           last.status = "ok" /\ last.return_value = VmNumber(3 - 5)

\* the last pass of the loop was a CONSTANT with a good index on a stack that
\* held max_stack_size values
PushAtBound ==
    /\ Fetched /\ FetchedByte = 0
    /\ Len(last.pre_stack) = max_stack_size
    /\ get_byte(chunk, last.pre_ip + 1).ok
    /\ get_constant(chunk, get_byte(chunk, last.pre_ip + 1).value).ok

(* C23: in every state of the machine the stack holds at most max_stack_size *)
(* values; a push onto a stack of that size returns StackOverflow and leaves *)
(* the stack as it was.                                                      *)
C23_StackBounded ==
    /\ Len(vm_stack) <= max_stack_size
    /\ PushAtBound =>
           /\ last.status = "err"
           /\ last.error = StackOverflowError(max_stack_size)
           /\ vm_stack = last.pre_stack
           /\ ~running

\* a run pushed onto the full stack
C23_PushedAtFullStack ==
    PushAtBound /\ last.status = "err" /\ Len(vm_stack) = DEFAULT_STACK_SIZE

\* the length of the instruction the last pass executed, 0 when it executed
\* none: RETURN moves the instruction pointer even when its pop fails
ExecutedLength ==
    IF ~Fetched THEN 0
    ELSE IF FetchedByte = 1 THEN 1
    ELSE IF FetchedByte = 0 /\ last.status = "continue" THEN 2
    ELSE IF FetchedByte \in 2..6 /\ last.status \in {"continue", "ok"} THEN 1
    ELSE 0

(* C24: run terminates on every finite chunk: every executed instruction     *)
(* moves the instruction pointer forward by its length, the loop makes at    *)
(* most one pass per byte and one more, the run ends at RETURN or with an    *)
(* error, and reaching the end of the code without RETURN returns            *)
(* InstructionPointerOutOfBounds.                                            *)
C24_RunTerminates ==
    /\ last.op = "run" /\ last.passes > 0 =>
           /\ instruction_pointer = last.pre_ip + ExecutedLength
           /\ running => ExecutedLength > 0
           /\ last.passes <= Len(chunk.code) + 1
    /\ RunEnded =>
           \/ last.status = "ok" /\ Fetched /\ FetchedByte = 1
           \/ last.status = "err"
    /\ RunEnded /\ ~Fetched =>
           /\ last.status = "err"
           /\ last.error = InstructionPointerOutOfBounds(last.pre_ip, Len(chunk.code))

(* C25: running the chunk whose code is the single byte RETURN, with no      *)
(* constants, on a new machine returns Ok.                                   *)
C25_ReturnOnlyChunkIsOk ==
    RunEnded /\ last.fresh /\ chunk = ReturnChunk => last.status = "ok"

(* C26: a byte that is none of 0x00..0x06 at the instruction pointer ends    *)
(* the run with InvalidInstruction carrying that byte; the stack and the     *)
(* instruction pointer are as they were before the fetch.                    *)
C26_InvalidInstruction ==
    Fetched /\ FetchedByte \notin 0..6 =>
        /\ ~running
        /\ last.status = "err"
        /\ last.error = InvalidInstruction(FetchedByte)
        /\ vm_stack = last.pre_stack
        /\ instruction_pointer = last.pre_ip

\* a run met a byte that is no opcode after it had pushed a value
C26_InvalidByteFetched ==
    /\ Fetched /\ FetchedByte \notin 0..6
    /\ last.pre_ip > 0
    /\ vm_stack # <<>>

(* C29: the outcome of run depends on the chunk only: the stack is empty     *)
(* when a run starts, and a run on a machine that has run chunks before ends *)
(* as the run of the same chunk on a new machine does.                       *)
C29_RunDependsOnChunkOnly ==
    /\ RunStarted => vm_stack = <<>>
    /\ RunEnded /\ Len(chunk.code) <= 2 * MaxCode =>
           \E new \in {run(chunk, <<>>, tracing)} :
               /\ last.status = new.status
               /\ last.error = new.error
               /\ last.return_value = new.return_value
               /\ vm_stack = new.stack

====
